---------------------------- MODULE Spec2Model ----------------------------
(***************************************************************************)
(* Model of the ingestion pipeline of youtube_library:                     *)
(*   - the transcript fetch chain (core/__init__.py), its proxy strategy   *)
(*     (core/proxy_transcript_fetcher.py) and its direct strategy with the *)
(*     retry loop (core/transcript_fetcher.py);                            *)
(*   - the antenna.json registry store (core/antenna_registry.py) and the  *)
(*     callers that update it (orchestrator.py, mcp/youtube_mcp_server.py).*)
(***************************************************************************)
EXTENDS Integers, Sequences, FiniteSets, TLC

VARIABLES
    cfg,        \* inputs of one fetch_transcript_text call: mode, max_retries, initial_delay
    fpc,        \* position of the fetch chain
    proxy,      \* proxy strategy: called, attempts made, per-attempt log, result
    direct,     \* direct strategy: loop index, delay, sleeps, per-attempt log, calls
    result,     \* what the chain returned (a triple), or NotYet
    cancel,     \* the caller asked to abandon the fetch in progress
    canon,      \* the file antenna.json: [state, reg]
    clock,      \* the time _now_iso() reads, in ticks
    orch,       \* the orchestrator run: position, queue of pending items, options
    tmp,        \* the file antenna.json.tmp: [state, reg, owner]
    lock,       \* antenna.json.lock: [installed, holder]
    procs,      \* per process: position in a registry update, its operation,
                \* the registry it loaded and changed
    hist        \* history: updates that returned, crashes, the state of
                \* antenna.json a crashed save left

fetchVars == <<cfg, fpc, proxy, direct, result, cancel>>

runVars == <<canon, clock, orch>>

storeVars == <<tmp, lock, procs, hist>>

\* what no step of the fetch chain reads or writes
registryVars == <<cancel, canon, clock, orch, tmp, lock, procs, hist>>

vars == <<cfg, fpc, proxy, direct, result, cancel, canon, clock, orch, tmp, lock, procs, hist>>

(***************************************************************************)
(* Values                                                                  *)
(***************************************************************************)
None == "None"

\* the triple of a call that has not returned
NotYet == [text |-> "NotYet", source |-> "NotYet", lang |-> "NotYet"]

NoneTriple == [text |-> None, source |-> None, lang |-> None]

Triple(t, s, l) == [text |-> t, source |-> s, lang |-> l]

\* Python truthiness of the text of a triple: `if text:`
Truthy(t) == t /= None /\ t /= ""

Last(s) == s[Len(s)]

RECURSIVE SumSeq(_)
SumSeq(s) == IF s = <<>> THEN 0 ELSE s[1] + SumSeq(Tail(s))

Min(a, b) == IF a <= b THEN a ELSE b

(***************************************************************************)
(* Bounds of the model                                                     *)
(***************************************************************************)
\* largest max_retries a caller passes (the default is 3)
MaxRetriesCfg == 3

\* registry writes of one behaviour (each reads the clock once)
MaxClock == 4

\* orchestrator runs of one behaviour
MaxRuns == 2

\* process crashes of one behaviour
MaxCrashes == 1

(***************************************************************************)
(* core/transcript_fetcher.py: constants                                   *)
(***************************************************************************)
BASE_DELAY == 2

MAX_DELAY == 60

BACKOFF_MULTIPLIER == 2

\* default of fetch_transcript_text(initial_delay=5.0)
DEFAULT_INITIAL_DELAY == 5

\* default of ProxyTranscriptFetcher.fetch_transcript(max_retries=3)
PROXY_MAX_RETRIES == 3

InitialDelays == {DEFAULT_INITIAL_DELAY, 40}

\* languages=('en', 'en-US', 'en-GB')
languages == <<"en", "en-US", "en-GB">>

(***************************************************************************)
(* youtube_transcript_api exception classes, as imported by                *)
(* core/transcript_fetcher.py.  Every error of the library derives from    *)
(* CouldNotRetrieveTranscript; IpBlocked derives from RequestBlocked.      *)
(* "Other" is any exception outside the library (network error, ...).      *)
(***************************************************************************)
ExcClasses ==
    {"IpBlocked", "RequestBlocked", "TranscriptsDisabled", "NoTranscriptFound",
     "VideoUnavailable", "CouldNotRetrieveTranscript", "Other"}

Parent(c) ==
    CASE c = "IpBlocked" -> "RequestBlocked"
      [] c \in {"RequestBlocked", "TranscriptsDisabled", "NoTranscriptFound",
                "VideoUnavailable"} -> "CouldNotRetrieveTranscript"
      [] OTHER -> "Exception"

\* isinstance(e, cls), as an except clause tests it
IsA(e, cls) ==
    \/ e = cls
    \/ Parent(e) = cls
    \/ Parent(Parent(e)) = cls
    \/ cls = "Exception"

IsBlock(e) == IsA(e, "IpBlocked") \/ IsA(e, "RequestBlocked")

(***************************************************************************)
(* The provider as one direct attempt sees it.                             *)
(*   list  : outcome of api.list(video_id): "ok" or the exception raised   *)
(*   order : order of the caption tracks of the video                      *)
(*   fetch : per variant, Absent (no such track) or the outcome of         *)
(*           fetching it: "ok", "okEmpty" (no text parts) or an exception  *)
(***************************************************************************)
TrackLangs == {"en", "de"}

Variants == [lang : TrackLangs, gen : BOOLEAN]

Absent == "absent"

FetchOutcomes == {"ok", "okEmpty", "IpBlocked", "RequestBlocked",
                  "CouldNotRetrieveTranscript", "Other"}

TrackOrders == {<<"en", "de">>, <<"de", "en">>}

ProviderEnvs ==
    [list : {"ok"}, order : TrackOrders, fetch : [Variants -> FetchOutcomes \cup {Absent}]]
    \cup
    [list : ExcClasses, order : {<<"en", "de">>}, fetch : {[v \in Variants |-> Absent]}]

Has(env, l, g) ==
    l \in TrackLangs /\ env.fetch[[lang |-> l, gen |-> g]] /= Absent

\* TranscriptList.__iter__: manually created tracks, then generated ones
TrackSeq(env) ==
    LET pick(g) == SelectSeq(env.order, LAMBDA l : Has(env, l, g))
        mk(s, g) == [i \in 1..Len(s) |-> [lang |-> s[i], gen |-> g]]
    IN  mk(pick(FALSE), FALSE) \o mk(pick(TRUE), TRUE)

\* api.fetch(video_id, languages=[code]): lists again, picks the manual track
\* of that language if there is one, else the generated one, and fetches it.
\* Gives "ok"/"okEmpty" or the exception raised.
ApiFetch(env, code) ==
    IF Has(env, code, FALSE) THEN env.fetch[[lang |-> code, gen |-> FALSE]]
    ELSE IF Has(env, code, TRUE) THEN env.fetch[[lang |-> code, gen |-> TRUE]]
    ELSE "NoTranscriptFound"

FetchedText(o) == IF o = "ok" THEN "hello" ELSE ""

(***************************************************************************)
(* _fetch_transcript_internal (core/transcript_fetcher.py)                 *)
(* An outcome is [kind, triple, exc, saw]:                                 *)
(*   kind "ret": the triple returned; kind "raise": the exception exc that *)
(*   leaves the function.  exc is also the exception that ended the        *)
(*   attempt when the function returned from an except clause ("none" when *)
(*   no exception ended it).  saw: every exception raised on the way.      *)
(***************************************************************************)
Ret(t, e, saw) == [kind |-> "ret", triple |-> t, exc |-> e, saw |-> saw]

Raise(e, saw) == [kind |-> "raise", triple |-> NoneTriple, exc |-> e, saw |-> saw]

\* OuterHandler with a plausible slip in its clauses: the block clause placed
\* first; an absence re-raised; an unknown error left uncaught
OuterHandlerBlockFirst(e, saw) ==
    IF IsBlock(e) THEN Raise(e, saw) ELSE Ret(NoneTriple, e, saw)

OuterHandlerRaiseAbsent(e, saw) ==
    IF IsA(e, "TranscriptsDisabled") \/ IsA(e, "VideoUnavailable")
    THEN Raise(e, saw)
    ELSE Ret(NoneTriple, e, saw)

OuterHandlerRaiseUnknown(e, saw) ==
    IF ~IsA(e, "CouldNotRetrieveTranscript")
    THEN Raise(e, saw)
    ELSE Ret(NoneTriple, e, saw)

\* the except clauses of the outer try, in their order (lines 203-221)
OuterHandler(e, saw) ==
    IF IsA(e, "TranscriptsDisabled") THEN Ret(NoneTriple, e, saw)
    ELSE IF IsA(e, "NoTranscriptFound") THEN Ret(NoneTriple, e, saw)
    ELSE IF IsA(e, "CouldNotRetrieveTranscript") THEN Ret(NoneTriple, e, saw)
    ELSE IF IsA(e, "VideoUnavailable") THEN Ret(NoneTriple, e, saw)
    ELSE IF IsBlock(e) THEN Raise(e, saw)
    ELSE Ret(NoneTriple, e, saw)

\* the except clauses of the manual and of the generated loop (lines 168-173,
\* 182-187): "continue", or "raise" into the outer try
PreferredLoopHandler(e) ==
    IF IsA(e, "NoTranscriptFound") \/ IsA(e, "CouldNotRetrieveTranscript") THEN "continue"
    ELSE "raise"

\* the except clauses of the any-variant loop (lines 196-201)
AnyLoopHandler(e) ==
    IF IsBlock(e) THEN "raise" ELSE "continue"

\* 3) last resort: any available transcript (lines 190-201)
RECURSIVE AnyLoop(_, _, _)
AnyLoop(env, ts, saw) ==
    IF ts = <<>> THEN Ret(NoneTriple, "none", saw)
    ELSE LET t == Head(ts)
             o == ApiFetch(env, t.lang)
         IN  IF o \in {"ok", "okEmpty"}
             THEN Ret(Triple(FetchedText(o),
                             IF ~t.gen THEN "manual" ELSE "auto-generated", t.lang),
                      "none", saw)
             ELSE IF AnyLoopHandler(o) = "raise"
                  THEN OuterHandler(o, saw \cup {o})
                  ELSE AnyLoop(env, Tail(ts), saw \cup {o})

\* 1) manual (gen = FALSE, lines 162-173) and 2) auto-generated (gen = TRUE,
\* lines 176-187) transcripts in the preferred languages
RECURSIVE PreferredLoop(_, _, _, _)
PreferredLoop(env, gen, i, saw) ==
    IF i > Len(languages)
    THEN IF ~gen THEN PreferredLoop(env, TRUE, 1, saw)
         ELSE AnyLoop(env, TrackSeq(env), saw)
    ELSE LET code == languages[i]
             o == IF Has(env, code, gen) THEN ApiFetch(env, code) ELSE "NoTranscriptFound"
         IN  IF o \in {"ok", "okEmpty"}
             THEN Ret(Triple(FetchedText(o),
                             IF ~gen THEN "manual" ELSE "auto-generated", code),
                      "none", saw)
             ELSE IF PreferredLoopHandler(o) = "raise"
                  THEN OuterHandler(o, saw \cup {o})
                  ELSE PreferredLoop(env, gen, i + 1, saw \cup {o})

fetch_transcript_internal(env) ==
    IF env.list /= "ok" THEN OuterHandler(env.list, {env.list})
    ELSE PreferredLoop(env, FALSE, 1, {})

\* what one call can end with, over every answer of the provider
InternalOutcomes == {fetch_transcript_internal(env) : env \in ProviderEnvs}

\* how an attempt ended, by the exception that ended it
Cause(o) ==
    IF o.exc = "none" THEN (IF o.triple = NoneTriple THEN "absent" ELSE "success")
    ELSE IF o.exc \in {"IpBlocked", "RequestBlocked"} THEN "block"
    ELSE IF o.exc = "Other" THEN "unknown"
    ELSE "absent"

(***************************************************************************)
(* Registry: core/antenna_registry.py                                      *)
(* A registry is [header, videos]; videos maps the ids present to entries. *)
(* Optional text fields hold None when unset.  Times are clock ticks.      *)
(***************************************************************************)
Vids == {"v1", "v2"}

Flags == {"metadata_fetched", "transcript_downloaded", "markdown_generated", "summarized"}

\* VideoStatus(): every flag False
VideoStatus == [f \in Flags |-> FALSE]

MetaKeysAndPaths == {"title", "published_at", "duration_sec", "url", "path_md", "path_json"}

\* the fields _refresh_metadata copies (lines 326-327), of those the model keeps
MetaKeys == {"title", "published_at", "duration_sec", "url"}

\* item.get(k)
Get(item, k) == IF k \in DOMAIN item THEN item[k] ELSE None

\* item.get(k) is not None; a published_at that is given is a time
Present(item, k) == k \in DOMAIN item /\ (k = "published_at" \/ item[k] /= None)

\* item.get(k, d)
GetD(item, k, d) == IF k \in DOMAIN item THEN item[k] ELSE d

\* _upsert_video, entry is None: a new VideoEntry (lines 286-307)
NewEntry(item, initialize_status, now) ==
    [video_id |-> item["video_id"],
     title |-> GetD(item, "title", ""),
     published_at |-> GetD(item, "published_at", now),
     duration_sec |-> Get(item, "duration_sec"),
     url |-> Get(item, "url"),
     transcript_source |-> Get(item, "transcript_source"),
     transcript_language |-> Get(item, "transcript_language"),
     path_md |-> Get(item, "path_md"),
     path_json |-> Get(item, "path_json"),
     status |-> IF initialize_status THEN VideoStatus ELSE GetD(item, "status", VideoStatus),
     last_updated |-> now]

OtherVid(v) == IF v = "v1" THEN "v2" ELSE "v1"

upsert_video_miskeyed(reg, item, initialize_status, now) ==
    [reg EXCEPT !.videos =
        [v \in DOMAIN reg.videos \cup {OtherVid(item["video_id"])} |->
            IF v = OtherVid(item["video_id"]) THEN NewEntry(item, initialize_status, now)
            ELSE reg.videos[v]]]

\* _upsert_video for an id not in the registry, as sync_registry calls it
upsert_video(reg, item, initialize_status, now) ==
    [reg EXCEPT !.videos =
        [v \in DOMAIN reg.videos \cup {item["video_id"]} |->
            IF v = item["video_id"] THEN NewEntry(item, initialize_status, now)
            ELSE reg.videos[v]]]

refresh_metadata_blanking(reg, item, now) ==
    IF ~Present(item, "video_id") \/ item["video_id"] \notin DOMAIN reg.videos THEN reg
    ELSE LET e == reg.videos[item["video_id"]]
             upd == [k \in DOMAIN e |->
                        IF k \in MetaKeys THEN Get(item, k)
                        ELSE IF k = "last_updated" THEN now
                        ELSE e[k]]
         IN  [reg EXCEPT !.videos[item["video_id"]] = upd]

\* _refresh_metadata (lines 316-331)
refresh_metadata(reg, item, now) ==
    IF ~Present(item, "video_id") \/ item["video_id"] \notin DOMAIN reg.videos THEN reg
    ELSE LET e == reg.videos[item["video_id"]]
             upd == [k \in DOMAIN e |->
                        IF k \in MetaKeys /\ Present(item, k) THEN item[k]
                        ELSE IF k = "last_updated" THEN now
                        ELSE e[k]]
         IN  [reg EXCEPT !.videos[item["video_id"]] = upd]

RECURSIVE MergeLoopReinserting(_, _, _, _)
MergeLoopReinserting(reg, items, n, now) ==
    IF items = <<>> THEN [reg |-> reg, new_count |-> n]
    ELSE IF ~Present(Head(items), "video_id")
    THEN MergeLoopReinserting(reg, Tail(items), n, now)
    ELSE MergeLoopReinserting(upsert_video(reg, Head(items), TRUE, now), Tail(items), n + 1, now)

\* the loop of sync_registry (lines 259-269); gives [reg, new_count]
RECURSIVE MergeLoop(_, _, _, _)
MergeLoop(reg, items, n, now) ==
    IF items = <<>> THEN [reg |-> reg, new_count |-> n]
    ELSE LET item == Head(items)
         IN  IF ~Present(item, "video_id") \/ item["video_id"] = ""
             THEN MergeLoop(reg, Tail(items), n, now)
             ELSE IF item["video_id"] \notin DOMAIN reg.videos
             THEN MergeLoop(upsert_video(reg, item, TRUE, now), Tail(items), n + 1, now)
             ELSE MergeLoop(refresh_metadata(reg, item, now), Tail(items), n, now)

sync_merge_pruning(reg, discovered, touch_last_synced, now) ==
    LET m == MergeLoop(reg, discovered, 0, now).reg
        seen == {discovered[i]["video_id"] :
                    i \in {j \in 1..Len(discovered) : "video_id" \in DOMAIN discovered[j]}}
    IN  [m EXCEPT !.videos = [v \in DOMAIN m.videos \cap seen |-> m.videos[v]]]

sync_merge_touching(reg, discovered, touch_last_synced, now) ==
    [MergeLoop(reg, discovered, 0, now).reg EXCEPT !.header.last_synced = now]

\* sync_registry between load and save (lines 257-272)
sync_merge(reg, discovered, touch_last_synced, now) ==
    LET m == MergeLoop(reg, discovered, 0, now)
    IN  IF touch_last_synced /\ m.new_count > 0
        THEN [m.reg EXCEPT !.header.last_synced = now]
        ELSE m.reg

\* update_status lines 396-401: a flag argument that is not None is stored
StatusAfter(e, args) ==
    [f \in Flags |-> IF f \in DOMAIN args THEN args[f] ELSE e.status[f]]

\* a slip: a path or provenance argument left at None clears the stored field
status_update_clearing(reg, vid, args, now) ==
    LET e == reg.videos[vid]
        upd == [k \in DOMAIN e |->
                   IF k = "status" THEN StatusAfter(e, args)
                   ELSE IF k \in {"path_md", "path_json", "transcript_source",
                                  "transcript_language"} THEN Get(args, k)
                   ELSE IF k = "last_updated" THEN now
                   ELSE e[k]]
    IN  [reg EXCEPT !.videos[vid] = upd, !.header.last_synced = now]

\* update_status between load and save (lines 394-412), video_id in the
\* registry; args holds the keyword arguments that are not None
status_update(reg, vid, args, now) ==
    LET e == reg.videos[vid]
        upd == [k \in DOMAIN e |->
                   IF k = "status" THEN StatusAfter(e, args)
                   ELSE IF k \in {"path_md", "path_json", "transcript_source",
                                  "transcript_language"} /\ k \in DOMAIN args THEN args[k]
                   ELSE IF k = "last_updated" THEN now
                   ELSE e[k]]
    IN  [reg EXCEPT !.videos[vid] = upd, !.header.last_synced = now]

\* ---- the stored document: what json.dump writes and json.load reads ----
\* JSON values by type; a timestamp is a JSON string
JNull == [t |-> "null"]

JStr(s) == [t |-> "str", v |-> s]

JInt(n) == [t |-> "int", v |-> n]

JBool(b) == [t |-> "bool", v |-> b]

JList == [t |-> "list"]

JObj(f) == [t |-> "obj", v |-> f]

\* file content that is not JSON
NotJson == [t |-> "garbled"]

\* the string that is no ISO 8601 time: sn.get("publishedAt", "")
EmptyStamp == 0

\* the fields that carry @field_validator validate_iso (line 70)
validate_iso_fields == {"published_at"}

\* VideoEntry.validate_iso (lines 70-78): datetime.fromisoformat succeeds
validate_iso(v) == v /= EmptyStamp

EntryKeys ==
    {"video_id", "title", "published_at", "duration_sec", "url", "transcript_source",
     "transcript_language", "path_md", "path_json", "status", "last_updated"}

\* the fields of VideoEntry without a default (lines 50-52)
RequiredKeys == {"video_id", "title", "published_at"}

\* one VideoEntry of reg.model_dump()
DumpEntry(e) ==
    JObj([k \in DOMAIN e |->
            IF k = "status" THEN JObj([f \in DOMAIN e.status |-> JBool(e.status[f])])
            ELSE IF k \in {"published_at", "last_updated"} THEN JStr(e[k])
            ELSE IF e[k] = None THEN JNull
            ELSE IF k = "duration_sec" THEN JInt(e[k])
            ELSE JStr(e[k])])

\* save_registry line 192: reg.model_dump(), as _atomic_write_json writes it
model_dump(reg) ==
    JObj([header |-> JObj([channel_id |-> JStr(reg.header.channel_id),
                           last_synced |-> JStr(reg.header.last_synced)]),
          videos |-> JObj([v \in DOMAIN reg.videos |-> DumpEntry(reg.videos[v])])])

\* pydantic's check of one field of a VideoEntry (lines 50-68)
FieldValid(k, j) ==
    IF k \in {"video_id", "title"} THEN j.t = "str"
    ELSE IF k = "published_at" THEN j.t = "str" /\ (k \in validate_iso_fields => validate_iso(j.v))
    ELSE IF k = "last_updated"
         THEN j.t = "null" \/ (j.t = "str" /\ (k \in validate_iso_fields => validate_iso(j.v)))
    ELSE IF k = "duration_sec" THEN j.t \in {"int", "null"}
    ELSE IF k = "status"
         THEN j.t = "obj" /\ \A f \in DOMAIN j.v \cap Flags : j.v[f].t = "bool"
    ELSE j.t \in {"str", "null"}

EntryValid(j) ==
    /\ j.t = "obj"
    /\ RequiredKeys \subseteq DOMAIN j.v
    /\ \A k \in DOMAIN j.v \cap EntryKeys : FieldValid(k, j.v[k])

\* ChannelHeader (lines 81-87)
HeaderValid(j) ==
    /\ j.t = "obj"
    /\ "channel_id" \in DOMAIN j.v
    /\ j.v.channel_id.t = "str"
    /\ "last_synced" \in DOMAIN j.v =>
          \/ j.v.last_synced.t = "null"
          \/ /\ j.v.last_synced.t = "str"
             /\ "last_synced" \in validate_iso_fields => validate_iso(j.v.last_synced.v)

\* AntennaRegistry(**data) raises no ValidationError (lines 90-93, 181)
RegistryValid(doc) ==
    /\ "header" \in DOMAIN doc.v
    /\ HeaderValid(doc.v.header)
    /\ "videos" \in DOMAIN doc.v =>
          /\ doc.v.videos.t = "obj"
          /\ \A v \in DOMAIN doc.v.videos.v : EntryValid(doc.v.videos.v[v])

\* the VideoEntry pydantic builds from a valid object
LoadEntry(j) ==
    [k \in EntryKeys |->
        IF k = "status"
        THEN IF k \in DOMAIN j.v
             THEN [f \in Flags |-> IF f \in DOMAIN j.v[k].v THEN j.v[k].v[f].v ELSE FALSE]
             ELSE VideoStatus
        ELSE IF k \notin DOMAIN j.v THEN None
        ELSE IF j.v[k].t = "null" THEN None
        ELSE j.v[k].v]

LoadHeader(j) ==
    [channel_id |-> j.v.channel_id.v,
     last_synced |-> IF "last_synced" \notin DOMAIN j.v THEN None
                     ELSE IF j.v.last_synced.t = "null" THEN None
                     ELSE j.v.last_synced.v]

\* the AntennaRegistry built from a valid document
AntennaRegistry(doc) ==
    [header |-> LoadHeader(doc.v.header),
     videos |-> IF "videos" \in DOMAIN doc.v
                THEN [v \in DOMAIN doc.v.videos.v |-> LoadEntry(doc.v.videos.v[v])]
                ELSE <<>>]

\* the file antenna.json: missing, holding a complete image, or holding a
\* partially written one
NoReg == [header |-> [channel_id |-> None, last_synced |-> 0], videos |-> <<>>]

MissingFile == [state |-> "missing", reg |-> NoReg]

FullFile(reg) == [state |-> "full", reg |-> reg]

\* a partially written file has no registry to read
PartialFile == [state |-> "partial", reg |-> NoReg]

\* _upsert_video line 300: VideoEntry(**base) validates published_at
NewEntryRaises(item, now) == ~validate_iso(GetD(item, "published_at", now))

\* the loop of sync_registry or of init_registry raises ValidationError: one
\* of the records it inserts fails validation (the ids of a list differ)
UpsertRaises(reg, items, now) ==
    \E i \in 1..Len(items) :
        /\ Present(items[i], "video_id")
        /\ items[i]["video_id"] /= ""
        /\ items[i]["video_id"] \notin DOMAIN reg.videos
        /\ NewEntryRaises(items[i], now)

\* what load_registry hands to its caller
Loaded(reg) == [ok |-> TRUE, reg |-> reg, error |-> None]

LoadError(e) == [ok |-> FALSE, reg |-> NoReg, error |-> e]

\* load_registry (lines 165-183) on a file that exists or not and holds doc.
\* json.load raises JSONDecodeError, a ValueError, on text that is not JSON;
\* AntennaRegistry(**data) raises TypeError on data that is no mapping.
load_registry(exists, doc) ==
    IF ~exists THEN LoadError("FileNotFoundError")
    ELSE IF doc.t = "garbled" THEN LoadError("JSONDecodeError")
    ELSE IF doc.t /= "obj" THEN LoadError("TypeError")
    ELSE IF ~RegistryValid(doc) THEN LoadError("ValueError")
    ELSE Loaded(AntennaRegistry(doc))

\* load_registry on the file as save_registry wrote it
Reload(file) == load_registry(file.state = "full", model_dump(file.reg))

\* load_registry succeeds on a file save_registry wrote: model_dump gives
\* every field its type, so the check that can fail is validate_iso
Readable(file) ==
    /\ file.state = "full"
    /\ \A v \in DOMAIN file.reg.videos : validate_iso(file.reg.videos[v].published_at)

\* init_registry lines 220-229: the header of a new registry, no videos
EmptyRegistryFor(channel_id, now) ==
    [header |-> [channel_id |-> channel_id, last_synced |-> now], videos |-> <<>>]

\* the registry of the channel the callers work on
EmptyRegistry(now) == EmptyRegistryFor("UC1", now)

\* init_registry line 233: _upsert_video(reg, item, initialize_status=True)
InitInitializesStatus == TRUE

\* init_registry lines 231-233, the records having ids that differ
RECURSIVE InitLoop(_, _, _)
InitLoop(reg, items, now) ==
    IF items = <<>> THEN reg
    ELSE InitLoop(upsert_video(reg, Head(items), InitInitializesStatus, now), Tail(items), now)

init_registry_always_creates(file) == TRUE

ChannelIds == {"UC1", "UC2"}

\* init_registry line 216: if path.exists(): return load_registry(...)
init_registry_creates(file) == file.state = "missing"

\* init_registry (lines 195-236): the file after the call
init_registry(file, channel_id, initial_videos, now) ==
    IF init_registry_creates(file)
    THEN IF UpsertRaises(EmptyRegistryFor(channel_id, now), initial_videos, now)
         THEN file
         ELSE FullFile(InitLoop(EmptyRegistryFor(channel_id, now), initial_videos, now))
    ELSE file

\* ---- sorting, for list_pending and the orchestrator queue ----
TitleOrder == <<"", "A", "B">>

TitleRank(t) == CHOOSE i \in 1..Len(TitleOrder) : TitleOrder[i] = t

Above_untitled(ord, x, y) ==
    IF ord = "key" THEN x.published_at > y.published_at
    ELSE x.published_at < y.published_at

\* (x.published_at, x.title) > (y.published_at, y.title), the key of
\* list_pending; x.published_at < y.published_at, for the orchestrator's
\* sorted(..., reverse=True)
Above(ord, x, y) ==
    IF ord = "key"
    THEN \/ x.published_at > y.published_at
         \/ x.published_at = y.published_at /\ TitleRank(x.title) > TitleRank(y.title)
    ELSE x.published_at < y.published_at

\* the place of x in the sorted sequence s: after every element not above it
RECURSIVE InsertSorted(_, _, _)
InsertSorted(x, s, ord) ==
    IF s = <<>> THEN <<x>>
    ELSE IF Above(ord, Head(s), x) THEN <<x>> \o s
    ELSE <<Head(s)>> \o InsertSorted(x, Tail(s), ord)

\* a stable sort, as list.sort and sorted are
RECURSIVE StableSort(_, _)
StableSort(s, ord) ==
    IF s = <<>> THEN <<>>
    ELSE InsertSorted(s[Len(s)], StableSort(SubSeq(s, 1, Len(s) - 1), ord), ord)

\* reg.videos.values(), in the order the ids were inserted; the model keeps
\* the ids in the order v1, v2, v3
VidOrder == <<"v1", "v2", "v3">>

Values(reg) ==
    LET ids == SelectSeq(VidOrder, LAMBDA v : v \in DOMAIN reg.videos)
    IN  [i \in 1..Len(ids) |-> reg.videos[ids[i]]]

Needs_markdown_unfetched(e, need) ==
    \/ need = "transcript" /\ ~e.status["transcript_downloaded"]
    \/ need = "markdown" /\ ~e.status["markdown_generated"]
    \/ need = "summary" /\ e.status["markdown_generated"] /\ ~e.status["summarized"]

\* list_pending lines 351-357
Needs(e, need) ==
    \/ need = "transcript" /\ ~e.status["transcript_downloaded"]
    \/ need = "markdown" /\ e.status["transcript_downloaded"] /\ ~e.status["markdown_generated"]
    \/ need = "summary" /\ e.status["markdown_generated"] /\ ~e.status["summarized"]

\* list_pending (lines 348-361)
list_pending(reg, need) ==
    StableSort(SelectSeq(Values(reg), LAMBDA e : Needs(e, need)), "key")

Procs == {"p1", "p2"}

\* a process outside every registry update
ProcIdle == [pc |-> "idle", op |-> [kind |-> "none"], reg |-> NoReg]

\* the store with no update under way
NoTemp == [state |-> "missing", reg |-> NoReg, owner |-> None]

StoreIdle ==
    /\ tmp = NoTemp
    /\ lock = [installed |-> TRUE, holder |-> None]
    /\ procs = [p \in Procs |-> ProcIdle]
    /\ hist = [acked |-> {}, crashes |-> 0, crashSeen |-> {}, timedOut |-> {}]

\* the orchestrator before and after a run
OrchIdle == [pc |-> "idle", queue |-> <<>>, summarize |-> FALSE, runs |-> 0]

(***************************************************************************)
(* Fetch chain: core/__init__.py fetch_transcript_text                     *)
(***************************************************************************)
RawModes == {"proxy_then_direct", "proxy_only", "direct_only", "bogus"}

ValidModes == {"proxy_then_direct", "proxy_only", "direct_only"}

\* lines 34-41: an unknown mode falls back to proxy_then_direct
Mode(raw) == IF raw \in ValidModes THEN raw ELSE "proxy_then_direct"

\* what one attempt of the proxy fetcher can end with (lines 118-151):
\* a transcript, a transcript whose formatted text is empty, an empty HTML
\* response, HTML without transcript data, or an exception
ProxyOutcomes == {"payload", "emptyText", "emptyHtml", "noData", "exception"}

ProxyLoopOffByOne == PROXY_MAX_RETRIES + 1

\* for attempt in range(max_retries), max_retries left at its default
ProxyAttemptsAllowed == PROXY_MAX_RETRIES

InitFetch ==
    /\ cfg \in [mode : RawModes, max_retries : 0..MaxRetriesCfg, initial_delay : InitialDelays]
    /\ fpc = "entry"
    /\ proxy = [called |-> FALSE, raised |-> FALSE, attempts |-> 0, log |-> <<>>, res |-> NotYet]
    /\ direct = [calls |-> 0, attempt |-> 0, delay |-> 0, sleeps |-> <<>>, log |-> <<>>]
    /\ result = NotYet
    /\ cancel = FALSE
    /\ canon = MissingFile
    /\ clock = 0
    /\ orch = OrchIdle
    /\ StoreIdle

\* lines 34-43
ChainEntry ==
    /\ fpc = "entry"
    /\ fpc' = IF Mode(cfg.mode) /= "direct_only" THEN "proxy_call" ELSE "direct_call"
    /\ UNCHANGED <<cfg, proxy, direct, result, registryVars>>

ChainContinuesAfterRaise == FALSE

\* lines 64-67: proxy_only ends the chain when the proxy fetcher raised
ChainEndsAfterRaise == Mode(cfg.mode) = "proxy_only"

\* what the proxy call raises: ImportError of the fetcher class, an error
\* of its constructor or of fetch_transcript_sync
ProxyRaises == {"Other"}

ProxyExceptionEscapes(e) == FALSE

\* line 64: except Exception catches what the import, the constructor or
\* the call of the proxy fetcher raises
ProxyExceptionCaught(e) == IsA(e, "Exception")

\* lines 44-52 and 64-67: the import, the constructor or the call raises
ProxyCallRaises ==
    /\ fpc = "proxy_call"
    /\ proxy' = [proxy EXCEPT !.called = TRUE, !.raised = TRUE]
    /\ \E e \in ProxyRaises :
          IF ~ProxyExceptionCaught(e)
          THEN fpc' = "raised" /\ result' = result
          ELSE IF ChainEndsAfterRaise
          THEN fpc' = "done" /\ result' = NoneTriple
          ELSE fpc' = "direct_call" /\ result' = result
    /\ UNCHANGED <<cfg, direct, registryVars>>

\* lines 44-52: the proxy fetcher starts its attempts
ProxyCallEnters ==
    /\ fpc = "proxy_call"
    /\ proxy' = [proxy EXCEPT !.called = TRUE]
    /\ fpc' = "proxy_loop"
    /\ UNCHANGED <<cfg, direct, result, registryVars>>

\* core/proxy_transcript_fetcher.py lines 115-151: one attempt
ProxyAttempt ==
    /\ fpc = "proxy_loop"
    /\ proxy.attempts < ProxyAttemptsAllowed
    /\ \E o \in ProxyOutcomes :
         /\ proxy' = [proxy EXCEPT
                !.attempts = @ + 1,
                !.log = Append(@, o),
                !.res = IF o = "payload" THEN Triple("hello", "proxy-scraped", "en")
                        ELSE IF o = "emptyText" THEN Triple("", "proxy-scraped", "en")
                        ELSE @]
         /\ fpc' = IF o \in {"payload", "emptyText"} THEN "proxy_ret" ELSE "proxy_loop"
    /\ UNCHANGED <<cfg, direct, result, registryVars>>

\* core/proxy_transcript_fetcher.py lines 153-154
ProxyExhausted ==
    /\ fpc = "proxy_loop"
    /\ proxy.attempts >= ProxyAttemptsAllowed
    /\ proxy' = [proxy EXCEPT !.res = NoneTriple]
    /\ fpc' = "proxy_ret"
    /\ UNCHANGED <<cfg, direct, result, registryVars>>

ReturnsProxyResultNever(t) == FALSE

\* line 54: if text
ReturnsProxyResult(t) == Truthy(t.text)

EndsAfterEmptyProxyAlways == TRUE

\* line 58: if mode == "proxy_only"
EndsAfterEmptyProxy == Mode(cfg.mode) = "proxy_only"

\* lines 54-63
ChainAfterProxy ==
    /\ fpc = "proxy_ret"
    /\ IF ReturnsProxyResult(proxy.res)
       THEN fpc' = "done" /\ result' = proxy.res
       ELSE IF EndsAfterEmptyProxy
            THEN fpc' = "done" /\ result' = NoneTriple
            ELSE fpc' = "direct_call" /\ result' = result
    /\ UNCHANGED <<cfg, proxy, direct, registryVars>>

\* line 69, and core/transcript_fetcher.py line 121
DirectCall ==
    /\ fpc = "direct_call"
    /\ direct' = [direct EXCEPT !.calls = @ + 1, !.attempt = 0, !.delay = cfg.initial_delay]
    /\ fpc' = "direct_loop"
    /\ UNCHANGED <<cfg, proxy, result, registryVars>>

\* lines 124-128 and 132-133: the pre-jitter sleeps of one loop iteration
SleepsOf(attempt, delay) ==
    IF attempt > 0 THEN <<delay>> ELSE <<BASE_DELAY>>

\* line 128: the delay after the sleep of a retry
NextDelay(attempt, delay) ==
    IF attempt > 0 THEN Min(delay * BACKOFF_MULTIPLIER, MAX_DELAY) ELSE delay

LogEntry(o) ==
    [kind |-> o.kind, exc |-> o.exc, cause |-> Cause(o), triple |-> o.triple,
     sawBlock |-> o.saw \cap {"IpBlocked", "RequestBlocked"} /= {},
     sawUnknown |-> "Other" \in o.saw]

\* core/transcript_fetcher.py lines 123-146: one iteration of the retry loop
DirectIteration ==
    /\ fpc = "direct_loop"
    /\ direct.attempt <= cfg.max_retries
    /\ \E o \in InternalOutcomes :
         LET slept == direct.sleeps \o SleepsOf(direct.attempt, direct.delay)
             d == NextDelay(direct.attempt, direct.delay)
             log == Append(direct.log, LogEntry(o))
         IN  IF o.kind = "ret"
             THEN /\ direct' = [direct EXCEPT !.sleeps = slept, !.delay = d, !.log = log]
                  /\ fpc' = "done"
                  /\ result' = o.triple
             ELSE IF IsBlock(o.exc)
             THEN IF direct.attempt < cfg.max_retries
                  THEN /\ direct' = [direct EXCEPT !.sleeps = slept, !.delay = d,
                                                   !.log = log, !.attempt = @ + 1]
                       /\ fpc' = "direct_loop"
                       /\ result' = result
                  ELSE /\ direct' = [direct EXCEPT !.sleeps = slept, !.delay = d, !.log = log]
                       /\ fpc' = "done"
                       /\ result' = NoneTriple
             ELSE /\ direct' = [direct EXCEPT !.sleeps = slept, !.delay = d, !.log = log]
                  /\ fpc' = "raised"
                  /\ result' = result
    /\ UNCHANGED <<cfg, proxy, registryVars>>

\* The caller abandons the fetch while it runs: the coroutine of the tool call
\* is cancelled (mcp/youtube_mcp_server.py: the handlers are coroutines and
\* call the chain without an await).  No line of the chain or of a strategy
\* reads such a request.
CancelRaised ==
    /\ fpc \notin {"done", "raised"}
    /\ ~cancel
    /\ cancel' = TRUE
    /\ UNCHANGED <<cfg, fpc, proxy, direct, result, canon, clock, orch, storeVars>>

NextFetch ==
    \/ CancelRaised
    \/ ChainEntry
    \/ ProxyCallRaises
    \/ ProxyCallEnters
    \/ ProxyAttempt
    \/ ProxyExhausted
    \/ ChainAfterProxy
    \/ DirectCall
    \/ DirectIteration

SpecFetch == InitFetch /\ [][NextFetch]_vars

(***************************************************************************)
(* Properties of the fetch chain                                           *)
(***************************************************************************)
Mode_ == Mode(cfg.mode)

\* the proxy strategy ended without a payload because the page of the item
\* carries no transcript data on any attempt: the item has no transcript
ProxyFoundAbsent ==
    /\ proxy.res = NoneTriple
    /\ proxy.log /= <<>>
    /\ \A i \in 1..Len(proxy.log) : proxy.log[i] = "noData"

\* the proxy strategy ran its attempts and every one of them failed
ProxyAllFailed ==
    /\ proxy.called /\ ~proxy.raised
    /\ proxy.res = NoneTriple

DirectEnded(cause) == direct.log /= <<>> /\ Last(direct.log).cause = cause

C5_BlockIsRetried ==
    (fpc = "done" /\ DirectEnded("block")) => Len(direct.log) = cfg.max_retries + 1

\* C6: first successful strategy wins: a non-empty payload of the proxy
\* strategy is returned with its source and language and the direct strategy
\* is not invoked; a non-empty payload of a direct attempt is returned with
\* its source and language and no further attempt is made.
C6_FirstSuccessWins ==
    /\ (proxy.res /= NotYet /\ Truthy(proxy.res.text) /\ fpc /= "proxy_ret") =>
           /\ fpc = "done"
           /\ result = proxy.res
           /\ direct.calls = 0
    /\ \A i \in 1..Len(direct.log) :
           Truthy(direct.log[i].triple.text) =>
               /\ i = Len(direct.log)
               /\ fpc = "done"
               /\ result = direct.log[i].triple

C6_Witness ==
    /\ fpc = "done"
    /\ proxy.res /= NotYet
    /\ Truthy(proxy.res.text)
    /\ result.source = "proxy-scraped"
    /\ Len(proxy.log) = 2

C9_AbsenceNotRetried ==
    \A i \in 1..Len(direct.log) :
        direct.log[i].cause = "absent" =>
            /\ i = Len(direct.log)
            /\ Len(direct.sleeps) = i
            /\ fpc = "done"
            /\ result = NoneTriple

C9_Witness ==
    /\ fpc = "done"
    /\ direct.log /= <<>>
    /\ Last(direct.log).exc = "TranscriptsDisabled"
    /\ cfg.max_retries = 3

ChainTriple(t) ==
    \/ t = NoneTriple
    \/ t.text /= None /\ t.source /= None /\ t.lang /= None

\* C11: the fetch chain never raises: whatever the strategies do (block,
\* absence, unknown error, an exception of the proxy fetcher or its import),
\* the call does not end by an exception, and when it has returned its
\* result is a payload triple or the absence triple.
C11_ChainNeverRaises ==
    /\ fpc /= "raised"
    /\ fpc = "done" => (result /= NotYet /\ ChainTriple(result))

\* the proxy fetcher raised and the direct strategy then met an unknown
\* error and a block; the chain returned absence
C11_Witness ==
    /\ fpc = "done"
    /\ proxy.raised
    /\ direct.log /= <<>>
    /\ Last(direct.log).sawUnknown
    /\ Last(direct.log).exc \in {"IpBlocked", "RequestBlocked"}
    /\ result = NoneTriple

\* C12: cancellation: once the cancellation signal is raised the fetch in
\* progress makes no further attempt (proxy or direct) and no further sleep,
\* and it does not return a result as a completed fetch does.
C12_CancelStopsFetch ==
    [][cancel => /\ proxy'.attempts = proxy.attempts
                 /\ Len(direct'.log) = Len(direct.log)
                 /\ direct'.sleeps = direct.sleeps
                 /\ result' = result]_vars

\* the proxy strategy has ended without a payload: it raised, or it returned
\* a result whose text is empty or None
ProxyGaveNoPayload ==
    \/ proxy.raised
    \/ (proxy.res /= NotYet /\ fpc /= "proxy_loop" /\ ~Truthy(proxy.res.text))

DirectInvoked == fpc \in {"direct_call", "direct_loop"} \/ direct.calls > 0

\* C32: the fetch mode selects the strategies: in direct_only mode the proxy
\* strategy is never invoked; in proxy_only mode the direct strategy is never
\* invoked, whether the proxy strategy returned nothing or raised; in
\* proxy_then_direct mode, and for any unrecognized mode, the direct strategy
\* is invoked exactly when the proxy strategy yielded no payload.
C32_ModeSelectsStrategies ==
    /\ Mode_ = "direct_only" =>
          /\ ~proxy.called /\ proxy.attempts = 0
          /\ fpc \in {"done", "raised"} => direct.calls = 1
    /\ Mode_ = "proxy_only" => ~DirectInvoked
    /\ Mode_ = "proxy_then_direct" =>
          /\ direct.calls <= 1
          /\ DirectInvoked => proxy.called /\ ProxyGaveNoPayload
          /\ fpc \in {"done", "raised"} => (direct.calls = 1 <=> ProxyGaveNoPayload)

C32_Witness ==
    /\ cfg.mode = "proxy_only"
    /\ proxy.raised
    /\ fpc = "done"
    /\ result = NoneTriple
    /\ direct.calls = 0

(***************************************************************************)
(* The callers of the registry, one handler per action:                    *)
(*   mcp/youtube_mcp_server.py  register_channel, sync_channel,            *)
(*                              process_video                              *)
(*   orchestrator.py            main: start of a run, one item of its      *)
(*                              loop, end of the run                       *)
(* The handlers run one after another here; a run of the orchestrator and  *)
(* calls of the tools interleave between the items of the run.             *)
(***************************************************************************)
Titles == {"A", "B"}

PublishedAts == 1..2

\* every flag True
AllDone == [f \in Flags |-> TRUE]

\* the dicts collect_videos returns (video_collector.py lines 134-145); one
\* without an id; and dicts of another caller of sync_registry, which carry
\* a duration, a status and paths and lack title, published_at and url
Items ==
    [video_id : Vids, title : Titles, published_at : PublishedAts,
     duration_sec : {None}, url : {"u"}]
    \cup {[title |-> "A"]}
    \cup {[video_id |-> "v1", title |-> "A", published_at |-> EmptyStamp,
           duration_sec |-> None, url |-> "u"]}
    \cup {[video_id |-> v, duration_sec |-> "60", status |-> AllDone,
           path_md |-> "x.md", path_json |-> "x.json"] : v \in Vids}

DiscoveredLists ==
    {<<>>} \cup {<<a>> : a \in Items}
    \cup {<<a, b>> : a \in {i \in Items : Get(i, "video_id") = "v1"},
                     b \in {i \in Items : Get(i, "video_id") = "v2"}}

\* what the fetch chain hands to its caller
ChainResults ==
    {NoneTriple, Triple("", "manual", "en"), Triple("hello", "manual", "en"),
     Triple("hello", "proxy-scraped", "en")}

\* what summarize_transcript returns
SummaryResults == {None, "tldr"}

\* str(fpath.relative_to(chan_dir))
PathMd(vid) == "transcripts/" \o vid \o ".md"

DoneArgs_always_summarized(r, summary_text, vid) ==
    [transcript_downloaded |-> TRUE,
     markdown_generated |-> TRUE,
     summarized |-> TRUE,
     transcript_source |-> r.source,
     transcript_language |-> r.lang,
     path_md |-> PathMd(vid)]

\* the keyword arguments of update_status after a rendered item
\* (orchestrator.py 309-318, youtube_mcp_server.py 277-286)
DoneArgs(r, summary_text, vid) ==
    [transcript_downloaded |-> TRUE,
     markdown_generated |-> TRUE,
     summarized |-> Truthy(summary_text),
     transcript_source |-> r.source,
     transcript_language |-> r.lang,
     path_md |-> PathMd(vid)]

\* update_status(transcript_downloaded=False) (orchestrator.py 321-327,
\* youtube_mcp_server.py 244)
FailedArgs == [transcript_downloaded |-> FALSE]

InitRun ==
    /\ cfg = [mode |-> "auto", max_retries |-> 0, initial_delay |-> DEFAULT_INITIAL_DELAY]
    /\ fpc = "off"
    /\ proxy = [called |-> FALSE, raised |-> FALSE, attempts |-> 0, log |-> <<>>, res |-> NotYet]
    /\ direct = [calls |-> 0, attempt |-> 0, delay |-> 0, sleeps |-> <<>>, log |-> <<>>]
    /\ result = NotYet
    /\ cancel = FALSE
    /\ canon = MissingFile
    /\ clock = 1
    /\ orch = OrchIdle
    /\ StoreIdle

\* lists of records with ids, for initial_videos
InitLists == {d \in DiscoveredLists : d /= <<>> /\ \A i \in 1..Len(d) : "video_id" \in DOMAIN d[i]}

\* what init_registry leaves in the file when it runs now
Initialized(initial_videos) == init_registry(canon, "UC1", initial_videos, clock)

\* init_registry called with initial_videos while the file is missing
InitWithVideos ==
    /\ canon.state = "missing"
    /\ clock < MaxClock
    /\ \E initial_videos \in InitLists : canon' = Initialized(initial_videos)
    /\ clock' = clock + 1
    /\ UNCHANGED <<fetchVars, orch, storeVars>>

\* tool_register_channel: init_registry creates the file when it is missing
RegisterChannel ==
    /\ canon.state = "missing"
    /\ clock < MaxClock
    /\ canon' = Initialized(<<>>)
    /\ clock' = clock + 1
    /\ UNCHANGED <<fetchVars, orch, storeVars>>

\* what sync_registry saves when it runs now on the stored registry
Merged(discovered, touch_last_synced) ==
    IF ~Readable(canon) \/ UpsertRaises(canon.reg, discovered, clock)
    THEN canon.reg
    ELSE sync_merge(canon.reg, discovered, touch_last_synced, clock)

\* sync_registry on the list runs to its save: the stored registry loads
\* and no record to insert fails validation
SyncCompletes(discovered) ==
    Readable(canon) /\ ~UpsertRaises(canon.reg, discovered, clock)

\* init_registry on the list runs to its save
InitCompletes(initial_videos) ==
    ~UpsertRaises(EmptyRegistryFor("UC1", clock), initial_videos, clock)

\* tool_sync_channel: collect_videos, then sync_registry
SyncChannel ==
    /\ canon.state = "full"
    /\ Readable(canon)
    /\ clock < MaxClock
    /\ \E discovered \in DiscoveredLists :
          canon' = FullFile(Merged(discovered, TRUE))
    /\ clock' = clock + 1
    /\ UNCHANGED <<fetchVars, orch, storeVars>>

RenderFailedMarksAttempt(reg, vid, now) == status_update(reg, vid, FailedArgs, now)

\* generate_markdown raised (orchestrator.py 297-306, youtube_mcp_server.py
\* 274 and 300-303): update_status is not called
RenderFailed(reg, vid, now) == reg

\* tool_process_video (lines 227-303) for an item of the registry: the ids
\* handed to fetch_transcript_text, whether the registry is written, and
\* the file after the call
ProcessVideoAfter(video_id, summarize, r, s, rendered) ==
    LET summary_text == IF summarize THEN s ELSE None
        written == ~Truthy(r.text) \/ rendered
    IN  [fetched |-> <<video_id>>,
         written |-> written,
         canon |-> FullFile(
             IF ~Truthy(r.text)
             THEN status_update(canon.reg, video_id, FailedArgs, clock)
             ELSE IF ~rendered
             THEN RenderFailed(canon.reg, video_id, clock)
             ELSE status_update(canon.reg, video_id,
                                DoneArgs(r, summary_text, video_id), clock))]

\* tool_process_video, the item being in the registry
ProcessVideo ==
    /\ canon.state = "full"
    /\ Readable(canon)
    /\ clock < MaxClock
    /\ \E video_id \in DOMAIN canon.reg.videos, summarize \in BOOLEAN,
          r \in ChainResults, s \in SummaryResults, rendered \in BOOLEAN :
          LET a == ProcessVideoAfter(video_id, summarize, r, s, rendered)
          IN  /\ canon' = a.canon
              /\ clock' = IF a.written THEN clock + 1 ELSE clock
    /\ UNCHANGED <<fetchVars, orch, storeVars>>

OrchLimits == {1, 50}

\* orchestrator.py lines 165-236: init_registry, collect_videos,
\* sync_registry, list_pending, the queue newest first
OrchStart ==
    /\ orch.pc = "idle"
    /\ orch.runs < MaxRuns
    /\ canon.state = "missing" \/ Readable(canon)
    /\ clock < MaxClock
    /\ \E discovered \in DiscoveredLists, limit \in OrchLimits, summarize \in BOOLEAN :
          LET reg0 == Initialized(<<>>).reg
              raises == UpsertRaises(reg0, discovered, clock)
              reg1 == IF raises THEN reg0 ELSE sync_merge(reg0, discovered, TRUE, clock)
              aborts == raises \/ ~Readable(FullFile(reg1))
              pend == list_pending(reg1, "transcript")
              pend_sorted == StableSort(pend, "published_desc")
              cut == IF Len(pend_sorted) > limit THEN SubSeq(pend_sorted, 1, limit)
                     ELSE pend_sorted
          IN  /\ canon' = FullFile(reg1)
              /\ orch' = IF aborts \/ pend = <<>>
                         THEN [orch EXCEPT !.runs = @ + 1]
                         ELSE [pc |-> "loop",
                               queue |-> [i \in 1..Len(cut) |-> cut[i].video_id],
                               summarize |-> summarize,
                               runs |-> orch.runs + 1]
    /\ clock' = clock + 1
    /\ UNCHANGED <<fetchVars, storeVars>>

OrchEndsRun(o) == [o EXCEPT !.pc = "idle", !.queue = <<>>]

\* the for loop of line 248 goes on with the next item of the queue
OrchNextItem(o) == [o EXCEPT !.queue = Tail(@)]

\* an exception that leaves main: the run is over
OrchAborts(o) == [o EXCEPT !.pc = "idle", !.queue = <<>>]

\* orchestrator.py lines 248-327, one item of the queue: the ids handed to
\* fetch_transcript_text, and the file, the clock and the loop after it.
\* The transcript is fetched, and fetched once more when the first result
\* is empty; markdown that fails to render skips the item; update_status on
\* a registry that does not load raises and ends the run.
OrchItemAfter(r1, r2, s, rendered) ==
    LET vid == Head(orch.queue)
        r == IF Truthy(r1.text) THEN r1 ELSE r2
        summary_text == IF orch.summarize THEN s ELSE None
        fetched == IF Truthy(r1.text) THEN <<vid>> ELSE <<vid, vid>>
    IN  IF Truthy(r.text) /\ ~rendered
        THEN [fetched |-> fetched,
              canon |-> FullFile(RenderFailed(canon.reg, vid, clock)),
              clock |-> clock,
              orch |-> OrchNextItem(orch)]
        ELSE IF ~Readable(canon)
        THEN [fetched |-> fetched, canon |-> canon, clock |-> clock,
              orch |-> OrchAborts(orch)]
        ELSE [fetched |-> fetched,
              canon |-> FullFile(status_update(canon.reg, vid,
                                     IF Truthy(r.text)
                                     THEN DoneArgs(r, summary_text, vid)
                                     ELSE FailedArgs, clock)),
              clock |-> clock + 1,
              orch |-> OrchNextItem(orch)]

\* the loop is at an item it can work on
OrchItemEnabled ==
    /\ orch.pc = "loop"
    /\ orch.queue /= <<>>
    /\ canon.state = "full"
    /\ clock < MaxClock
    /\ Head(orch.queue) \in DOMAIN canon.reg.videos

OrchItem ==
    /\ OrchItemEnabled
    /\ \E r1 \in ChainResults, r2 \in ChainResults, s \in SummaryResults,
          rendered \in BOOLEAN :
          LET a == OrchItemAfter(r1, r2, s, rendered)
          IN  /\ canon' = a.canon
              /\ clock' = a.clock
              /\ orch' = a.orch
    /\ UNCHANGED <<fetchVars, storeVars>>

\* orchestrator.py lines 329-335: build_index, end of the run
OrchDone ==
    /\ orch.pc = "loop"
    /\ orch.queue = <<>>
    /\ orch' = [orch EXCEPT !.pc = "idle"]
    /\ UNCHANGED <<fetchVars, canon, clock, storeVars>>

NextRun ==
    \/ RegisterChannel
    \/ InitWithVideos
    \/ SyncChannel
    \/ ProcessVideo
    \/ OrchStart
    \/ OrchItem
    \/ OrchDone

SpecRun == InitRun /\ [][NextRun]_vars

(***************************************************************************)
(* Properties of the status flags                                          *)
(***************************************************************************)
FlagSet(file, v, f) ==
    /\ file.state = "full"
    /\ v \in DOMAIN file.reg.videos
    /\ file.reg.videos[v].status[f]

\* status flags and local paths of an entry
Progress(e) == <<e.status, e.path_md, e.path_json>>

\* C13: no regression by merge: sync_registry leaves the four status flags,
\* path_md and path_json of every item already in the registry exactly as
\* they were, whatever the discovered set: in every reachable registry, the
\* merge of any discovered list keeps the progress of every stored item.
C13_MergeKeepsProgress ==
    canon.state = "full" =>
        \A d \in DiscoveredLists, touch \in BOOLEAN :
            LET m == Merged(d, touch)
            IN  \A v \in DOMAIN canon.reg.videos :
                    /\ v \in DOMAIN m.videos
                    /\ Progress(m.videos[v]) = Progress(canon.reg.videos[v])

\* a merge has refreshed, from a record that carries a status and paths, an
\* item whose transcript was downloaded: the refresh is stamped with the
\* time of the merge, the duration is the record's, the progress the old one
C13_Witness ==
    /\ canon.state = "full"
    /\ "v1" \in DOMAIN canon.reg.videos
    /\ LET e == canon.reg.videos["v1"]
       IN  /\ e.status["transcript_downloaded"]
           /\ ~e.status["summarized"]
           /\ e.path_md = PathMd("v1")
           /\ e.duration_sec = "60"
           /\ e.last_updated > 2
           /\ canon.reg.header.last_synced < e.last_updated

\* the record carries a value for the field: the key is there and not None
Carries(r, k) == k \in DOMAIN r /\ (k = "published_at" \/ r[k] /= None)

DescriptiveFields == {"title", "published_at", "duration_sec", "url"}

\* C14: non-destructive refresh: a record of sync_registry for an item
\* already in the registry overwrites each descriptive field for which it
\* carries a value, and every descriptive field it does not carry keeps its
\* stored value.
C14_RefreshKeepsAbsentFields ==
    canon.state = "full" =>
        \A d \in DiscoveredLists :
            LET m == Merged(d, TRUE)
            IN  \A i \in 1..Len(d) :
                    (/\ SyncCompletes(d)
                     /\ "video_id" \in DOMAIN d[i]
                     /\ d[i]["video_id"] \in DOMAIN canon.reg.videos)
                    => \A k \in DescriptiveFields :
                           m.videos[d[i]["video_id"]][k] =
                               IF Carries(d[i], k) THEN d[i][k]
                               ELSE canon.reg.videos[d[i]["video_id"]][k]

\* an item has a title and a url from one record and a duration from
\* another, which carried no title and no url
C14_Witness ==
    /\ canon.state = "full"
    /\ "v2" \in DOMAIN canon.reg.videos
    /\ canon.reg.videos["v2"].title = "B"
    /\ canon.reg.videos["v2"].url = "u"
    /\ canon.reg.videos["v2"].duration_sec = "60"
    /\ canon.reg.videos["v2"].published_at = 2

\* the ids of the records of a list
IdsOf(d) == {d[i]["video_id"] : i \in {j \in 1..Len(d) : "video_id" \in DOMAIN d[j]}}

\* the record of a list for an id
RecordOf(d, v) == d[CHOOSE i \in 1..Len(d) : "video_id" \in DOMAIN d[i] /\ d[i]["video_id"] = v]

\* the merge inserts every unseen record, all flags false
MergeInsertsCleared ==
    canon.state = "full" =>
        \A d \in DiscoveredLists :
            LET m == Merged(d, TRUE)
            IN  SyncCompletes(d) =>
                    \A v \in IdsOf(d) \ DOMAIN canon.reg.videos :
                        /\ v \in DOMAIN m.videos
                        /\ m.videos[v].status = VideoStatus

\* C15 as stated: every unseen record is inserted with all four flags false
\* by the merge, and with the status it supplies, when it supplies one, by
\* init_registry with initial_videos.
C15_InsertKeepsSuppliedStatus ==
    /\ MergeInsertsCleared
    /\ canon.state = "missing" =>
          \A d \in {l \in InitLists : InitCompletes(l)} :
              \A v \in IdsOf(d) :
                  /\ v \in DOMAIN Initialized(d).reg.videos
                  /\ Initialized(d).reg.videos[v].status =
                        IF "status" \in DOMAIN RecordOf(d, v) THEN RecordOf(d, v)["status"]
                        ELSE VideoStatus

\* what the code does: every unseen record is inserted with all four flags
\* false, by the merge and by init_registry with initial_videos alike; a
\* status the record supplies is dropped
InsertClearsStatus ==
    /\ MergeInsertsCleared
    /\ canon.state = "missing" =>
          \A d \in {l \in InitLists : InitCompletes(l)} :
              \A v \in IdsOf(d) :
                  /\ v \in DOMAIN Initialized(d).reg.videos
                  /\ Initialized(d).reg.videos[v].status = VideoStatus

\* C16: sync_registry sets last_synced to the current time if and only if
\* timestamp tracking is requested and the merge inserted at least one new
\* item; a merge that only refreshes known items, and every merge with
\* touch_last_synced false, leaves last_synced as it was.
C16_LastSyncedIffInserted ==
    canon.state = "full" =>
        /\ canon.reg.header.last_synced < clock
        /\ \A d \in DiscoveredLists, touch \in BOOLEAN :
               Merged(d, touch).header.last_synced =
                   IF SyncCompletes(d) /\ touch /\ IdsOf(d) \ DOMAIN canon.reg.videos /= {}
                   THEN clock
                   ELSE canon.reg.header.last_synced

\* a merge inserted v2 and stamped the header; a later merge refreshed v1
\* only and left the stamp
C16_Witness ==
    /\ canon.state = "full"
    /\ DOMAIN canon.reg.videos = Vids
    /\ canon.reg.header.last_synced = 2
    /\ canon.reg.videos["v2"].last_updated = 2
    /\ canon.reg.videos["v2"].status = VideoStatus
    /\ canon.reg.videos["v1"].last_updated = 3
    /\ canon.reg.videos["v1"].status = VideoStatus

\* C17: last_synced changes only in a step that discovers a new item or
\* changes a status flag of some item; an update_status call that changes
\* no flag leaves it as it was.
C17_LastSyncedOnlyOnChange ==
    [][(canon.state = "full" /\ canon'.reg.header.last_synced /= canon.reg.header.last_synced)
          => \/ DOMAIN canon'.reg.videos /= DOMAIN canon.reg.videos
             \/ \E v \in DOMAIN canon.reg.videos :
                    canon'.reg.videos[v].status /= canon.reg.videos[v].status]_vars

\* a registry without its timestamps
Untimed(reg) ==
    [channel_id |-> reg.header.channel_id,
     videos |-> [v \in DOMAIN reg.videos |->
                    [k \in DOMAIN reg.videos[v] \ {"last_updated"} |-> reg.videos[v][k]]]]

\* C18: idempotent merge: sync_registry run twice with the same discovered
\* set leaves, after the second run, the registry of after the first run
\* but for last_updated and last_synced: same items, metadata, flags, paths.
C18_MergeIdempotent ==
    (canon.state = "full" /\ clock < MaxClock) =>
        \A d \in DiscoveredLists :
            LET once == Merged(d, TRUE)
                twice == IF Readable(FullFile(once)) /\ ~UpsertRaises(once, d, clock + 1)
                         THEN sync_merge(once, d, TRUE, clock + 1)
                         ELSE once
            IN  Untimed(twice) = Untimed(once)

\* the registry was created empty, a merge inserted v1 and v2, and the next
\* merge met both again
C18_Witness ==
    /\ canon.state = "full"
    /\ DOMAIN canon.reg.videos = Vids
    /\ canon.reg.header.last_synced = 2
    /\ \A v \in Vids :
          /\ canon.reg.videos[v].last_updated = 3
          /\ canon.reg.videos[v].status = VideoStatus
          /\ canon.reg.videos[v].title = ""
          /\ canon.reg.videos[v].published_at = 2

\* C19: init_registry is idempotent: when the registry file exists, a call
\* with any channel id and any initial_videos writes nothing: the file it
\* leaves, which it returns, is the stored one.
C19_InitIdempotent ==
    canon.state = "full" =>
        \A c \in ChannelIds, d \in InitLists \cup {<<>>} :
            init_registry(canon, c, d, clock) = canon

\* the second run of the orchestrator called init_registry on the registry
\* the first run left, in which v1 was processed
C19_Witness ==
    /\ orch.runs = 2
    /\ canon.state = "full"
    /\ "v1" \in DOMAIN canon.reg.videos
    /\ canon.reg.videos["v1"].status["markdown_generated"]
    /\ canon.reg.videos["v1"].last_updated < canon.reg.header.last_synced

\* C20: in every registry reachable through init_registry, sync_registry
\* and update_status, every key of the items mapping is the video_id of its
\* entry; an entry stays under its key, so its id never changes.
C20_KeyEqualsVideoId ==
    canon.state = "full" =>
        \A v \in DOMAIN canon.reg.videos : canon.reg.videos[v].video_id = v

\* both items are stored; v1 was inserted, refreshed by a record with a
\* duration and updated by update_status
C20_Witness ==
    /\ canon.state = "full"
    /\ DOMAIN canon.reg.videos = Vids
    /\ canon.reg.videos["v1"].title = "A"
    /\ canon.reg.videos["v1"].duration_sec = "60"
    /\ canon.reg.videos["v1"].status["transcript_downloaded"]
    /\ canon.reg.videos["v1"].transcript_source = "proxy-scraped"

\* C21: item entries are never deleted: an id in the stored registry is in
\* the stored registry after every later init_registry, sync_registry or
\* update_status call, a sync whose discovered set lacks the item included.
C21_EntriesNeverDeleted ==
    [][canon.state = "full" =>
          /\ canon'.state = "full"
          /\ DOMAIN canon.reg.videos \subseteq DOMAIN canon'.reg.videos]_vars

\* v1 was stored at the first tick; the merge of the second tick inserted
\* v2 from a list without v1, and v1 is still there
C21_Witness ==
    /\ canon.state = "full"
    /\ DOMAIN canon.reg.videos = Vids
    /\ canon.reg.videos["v1"].last_updated = 1
    /\ canon.reg.videos["v2"].title = ""
    /\ canon.reg.videos["v2"].published_at = 2
    /\ canon.reg.videos["v2"].last_updated = 2

\* C23: save/load round trip: after any sequence of init_registry,
\* sync_registry and update_status calls, loading the stored registry
\* succeeds and gives the header, items, metadata, flags and paths of the
\* registry that was saved last.
C23_ReloadReproduces ==
    canon.state = "full" =>
        LET l == Reload(canon)
        IN  l.ok /\ l.reg = canon.reg

\* Readable agrees with load_registry on what save_registry wrote
ReadableIsReloadOk == Readable(canon) <=> Reload(canon).ok

\* the part of C23 the code keeps: a stored registry that loads is
\* reproduced exactly
ReloadedIsSame ==
    (canon.state = "full" /\ Reload(canon).ok) => Reload(canon).reg = canon.reg

\* the results of the chain without a payload, and those with one
NoPayload == {r \in ChainResults : ~Truthy(r.text)}

Payload == {r \in ChainResults : Truthy(r.text)}

TD(reg, v) == reg.videos[v].status["transcript_downloaded"]

MG(reg, v) == reg.videos[v].status["markdown_generated"]

SM(reg, v) == reg.videos[v].status["summarized"]

QueueIds(o) == {o.queue[i] : i \in 1..Len(o.queue)}

\* C27: when the chain yields no payload for a pending item (both fetches
\* of the item empty), the orchestrator leaves the item with
\* transcript_downloaded = false, does not end the run, and goes on with
\* the remaining items of the queue, all of which it can process.
C27_FailedItemDoesNotStopRun ==
    (OrchItemEnabled /\ Readable(canon)) =>
        \A r1 \in NoPayload, r2 \in NoPayload, s \in SummaryResults, rendered \in BOOLEAN :
            LET a == OrchItemAfter(r1, r2, s, rendered)
            IN  /\ ~TD(a.canon.reg, Head(orch.queue))
                /\ a.orch.pc = "loop"
                /\ a.orch.queue = Tail(orch.queue)
                /\ QueueIds(a.orch) \subseteq DOMAIN a.canon.reg.videos
                /\ Readable(a.canon)

\* a run of two items: the first was fetched without a payload at tick 2
\* and is not downloaded, the second was completed at tick 3
C27_Witness ==
    /\ orch.pc = "loop"
    /\ orch.queue = <<>>
    /\ canon.state = "full"
    /\ DOMAIN canon.reg.videos = Vids
    /\ \E a \in Vids :
          /\ ~TD(canon.reg, a)
          /\ ~MG(canon.reg, a)
          /\ canon.reg.videos[a].last_updated = 2
          /\ TD(canon.reg, OtherVid(a))
          /\ canon.reg.videos[OtherVid(a)].last_updated = 3

\* C28: when generate_markdown fails after a fetch with a payload,
\* markdown_generated does not become true and transcript_downloaded is not
\* set false, in the orchestrator loop and in process_video.
C28_RenderFailureKeepsFlags ==
    /\ (OrchItemEnabled /\ Readable(canon)) =>
          \A r1 \in ChainResults, r2 \in ChainResults, s \in SummaryResults :
              (Truthy(r1.text) \/ Truthy(r2.text)) =>
                  LET a == OrchItemAfter(r1, r2, s, FALSE)
                      v == Head(orch.queue)
                  IN  /\ MG(a.canon.reg, v) => MG(canon.reg, v)
                      /\ TD(canon.reg, v) => TD(a.canon.reg, v)
    /\ (canon.state = "full" /\ Readable(canon) /\ clock < MaxClock) =>
          \A v \in DOMAIN canon.reg.videos, summarize \in BOOLEAN, r \in Payload,
             s \in SummaryResults :
              LET b == ProcessVideoAfter(v, summarize, r, s, FALSE)
              IN  /\ MG(b.canon.reg, v) => MG(canon.reg, v)
                  /\ TD(canon.reg, v) => TD(b.canon.reg, v)

\* a run whose queue was passed without one write: every item of it failed
\* to render, and no item is marked; a downloaded item is the work of
\* process_video, on which a later render failure can act
C28_Witness ==
    /\ orch.pc = "loop"
    /\ orch.queue = <<>>
    /\ orch.runs = 1
    /\ canon.state = "full"
    /\ DOMAIN canon.reg.videos = Vids
    /\ clock = 2
    /\ \A v \in Vids : ~TD(canon.reg, v) /\ ~MG(canon.reg, v)

\* C29: no duplicate work: an item with transcript_downloaded = true is
\* not fetched again; neither an orchestrator item nor process_video hands
\* its id to the fetch chain.
C29_DownloadedNotFetchedAgain ==
    /\ (OrchItemEnabled /\ Readable(canon)) =>
          \A r1 \in ChainResults, r2 \in ChainResults, s \in SummaryResults,
             rendered \in BOOLEAN :
              LET a == OrchItemAfter(r1, r2, s, rendered)
              IN  \A i \in 1..Len(a.fetched) : ~TD(canon.reg, a.fetched[i])
    /\ (canon.state = "full" /\ Readable(canon) /\ clock < MaxClock) =>
          \A v \in DOMAIN canon.reg.videos, summarize \in BOOLEAN, r \in ChainResults,
             s \in SummaryResults, rendered \in BOOLEAN :
              LET b == ProcessVideoAfter(v, summarize, r, s, rendered)
              IN  \A i \in 1..Len(b.fetched) : ~TD(canon.reg, b.fetched[i])

\* the part of C29 the orchestrator keeps: the queue of a run holds each
\* pending item once
QueueHoldsEachOnce ==
    orch.pc = "loop" => Cardinality(QueueIds(orch)) = Len(orch.queue)

\* C30: a summarizer that gives nothing is not an error: with a payload
\* and the markdown rendered, the item is recorded with
\* transcript_downloaded = true and markdown_generated = true, summarized
\* is not set true, and the run goes on with the next item.
C30_NoSummaryStillCompletes ==
    /\ (OrchItemEnabled /\ Readable(canon)) =>
          \A r1 \in ChainResults, r2 \in ChainResults :
              (Truthy(r1.text) \/ Truthy(r2.text)) =>
                  LET a == OrchItemAfter(r1, r2, None, TRUE)
                      v == Head(orch.queue)
                  IN  /\ TD(a.canon.reg, v)
                      /\ MG(a.canon.reg, v)
                      /\ ~SM(a.canon.reg, v)
                      /\ a.orch.pc = "loop"
                      /\ a.orch.queue = Tail(orch.queue)
    /\ (canon.state = "full" /\ Readable(canon) /\ clock < MaxClock) =>
          \A v \in DOMAIN canon.reg.videos, r \in Payload :
              LET b == ProcessVideoAfter(v, TRUE, r, None, TRUE)
              IN  TD(b.canon.reg, v) /\ MG(b.canon.reg, v) /\ ~SM(b.canon.reg, v)

\* a summarizing run recorded both of its items at ticks 2 and 3 without
\* a summary
C30_Witness ==
    /\ orch.pc = "loop"
    /\ orch.summarize
    /\ orch.queue = <<>>
    /\ canon.state = "full"
    /\ DOMAIN canon.reg.videos = Vids
    /\ \A v \in Vids : TD(canon.reg, v) /\ MG(canon.reg, v) /\ ~SM(canon.reg, v)
    /\ \E a \in Vids :
          /\ canon.reg.videos[a].last_updated = 2
          /\ canon.reg.videos[OtherVid(a)].last_updated = 3

\* C36: stage flags stay ordered: in every state reached through
\* init_registry, sync_registry, orchestrator runs and process_video calls,
\* markdown_generated implies transcript_downloaded and summarized implies
\* markdown_generated for every item, so that no item is pending for
\* 'transcript' and for 'summary' at once.
C36_StageFlagsOrdered ==
    canon.state = "full" =>
        \A v \in DOMAIN canon.reg.videos :
            /\ MG(canon.reg, v) => TD(canon.reg, v)
            /\ SM(canon.reg, v) => MG(canon.reg, v)
            /\ ~(Needs(canon.reg.videos[v], "transcript") /\ Needs(canon.reg.videos[v], "summary"))

\* C40: in one orchestrator run each selected pending item has the fetch
\* chain invoked exactly once and receives at most one update_status call,
\* made after its fetch (and, on success, its rendering) has finished; the
\* items are handled strictly one after another.
C40_OneFetchOneUpdatePerItem ==
    OrchItemEnabled =>
        \A r1 \in ChainResults, r2 \in ChainResults, s \in SummaryResults,
           rendered \in BOOLEAN :
            LET a == OrchItemAfter(r1, r2, s, rendered)
            IN  /\ a.fetched = <<Head(orch.queue)>>
                /\ a.clock \in {clock, clock + 1}
                /\ a.clock = clock => a.canon = canon
                /\ a.orch.pc = "loop" => a.orch.queue = Tail(orch.queue)

\* the rest of C40 without the count of fetches: the item at the head of the
\* queue alone is fetched, at most one update follows, the queue moves on
\* by that item
OneUpdatePerItemInTurn ==
    OrchItemEnabled =>
        \A r1 \in ChainResults, r2 \in ChainResults, s \in SummaryResults,
           rendered \in BOOLEAN :
            LET a == OrchItemAfter(r1, r2, s, rendered)
            IN  /\ \A i \in 1..Len(a.fetched) : a.fetched[i] = Head(orch.queue)
                /\ Len(a.fetched) = IF Truthy(r1.text) THEN 1 ELSE 2
                /\ a.clock \in {clock, clock + 1}
                /\ a.clock = clock => a.canon = canon
                /\ a.orch.pc = "loop" => a.orch.queue = Tail(orch.queue)

\* C3: status flags are monotonic: a flag of an item that is true in the
\* registry is true after every step of sync_registry, of an update_status
\* call of an orchestrator run and of process_video.
C3_FlagsMonotonic ==
    [][\A v \in Vids, f \in Flags : FlagSet(canon, v, f) => FlagSet(canon', v, f)]_vars


(***************************************************************************)
(* The store under concurrent processes: core/antenna_registry.py          *)
(* sync_registry and update_status, step by step.  A process loads the     *)
(* file and changes its copy (no lock), then save_registry: enters         *)
(* _with_lock, and _atomic_write_json opens antenna.json.tmp, writes and   *)
(* fsyncs it, os.replace moves it over antenna.json; when os.replace       *)
(* raises, shutil.move renames, or copies over antenna.json and unlinks    *)
(* the temp file.  A process may crash between any two steps.              *)
(***************************************************************************)
StoreItem(v) ==
    [video_id |-> v, title |-> "A", published_at |-> 1, duration_sec |-> None, url |-> "u"]

\* the registry a channel starts the concurrent updates with: v1 known,
\* written at the tick the updates run in
StoreRegs ==
    {sync_merge(EmptyRegistry(1), <<StoreItem("v1")>>, TRUE, 1),
     sync_merge(EmptyRegistry(1), <<StoreItem("v1"), StoreItem("v2")>>, TRUE, 1)}

\* the updates the processes make
StoreOps ==
    {[kind |-> "update_status", video_id |-> v] : v \in Vids}
    \cup {[kind |-> "sync", video_id |-> "v2"]}

\* the registry of an update between its load and its save
Modified(reg, op, now) ==
    IF op.kind = "sync"
    THEN sync_merge(reg, <<StoreItem(op.video_id)>>, TRUE, now)
    ELSE status_update(reg, op.video_id,
                       DoneArgs(Triple("hello", "manual", "en"), None, op.video_id), now)

InitStore ==
    /\ cfg = [mode |-> "auto", max_retries |-> 0, initial_delay |-> DEFAULT_INITIAL_DELAY]
    /\ fpc = "off"
    /\ proxy = [called |-> FALSE, raised |-> FALSE, attempts |-> 0, log |-> <<>>, res |-> NotYet]
    /\ direct = [calls |-> 0, attempt |-> 0, delay |-> 0, sleeps |-> <<>>, log |-> <<>>]
    /\ result = NotYet
    /\ cancel = FALSE
    /\ canon \in {FullFile(r) : r \in StoreRegs}
    /\ clock = 1
    /\ orch = OrchIdle
    /\ tmp = NoTemp
    /\ lock \in [installed : BOOLEAN, holder : {None}]
    /\ procs = [p \in Procs |-> ProcIdle]
    /\ hist = [acked |-> {}, crashes |-> 0, crashSeen |-> {}, timedOut |-> {}]

\* load_registry and the change of the loaded copy (sync_registry 257-270,
\* update_status 394-410); no lock is taken
LoadAndModify(p) ==
    /\ procs[p].pc = "idle"
    /\ canon.state = "full"
    /\ \E op \in StoreOps :
          /\ op.kind = "update_status" => op.video_id \in DOMAIN canon.reg.videos
          /\ procs' = [procs EXCEPT ![p] =
                          [pc |-> "lock", op |-> op,
                           reg |-> Modified(canon.reg, op, clock)]]
    /\ UNCHANGED <<fetchVars, runVars, tmp, lock, hist>>

\* save_registry line 191: with _with_lock(path); Noop when filelock is
\* not installed
Acquire(p) ==
    /\ procs[p].pc = "lock"
    /\ lock.installed => lock.holder = None
    /\ lock' = IF lock.installed THEN [lock EXCEPT !.holder = p] ELSE lock
    /\ procs' = [procs EXCEPT ![p].pc = "open"]
    /\ UNCHANGED <<fetchVars, runVars, tmp, hist>>

LockTimeoutIgnored(p) ==
    /\ procs[p].pc = "lock"
    /\ lock.installed
    /\ lock.holder \notin {None, p}
    /\ procs' = [procs EXCEPT ![p].pc = "open"]
    /\ hist' = [hist EXCEPT !.timedOut = @ \cup {procs[p].op}]
    /\ UNCHANGED <<fetchVars, runVars, tmp, lock>>

\* FileLock(lock_path, timeout=30) raises Timeout while another holds it:
\* the with block of save_registry is not entered, the update fails
LockTimeout(p) ==
    /\ procs[p].pc = "lock"
    /\ lock.installed
    /\ lock.holder \notin {None, p}
    /\ procs' = [procs EXCEPT ![p] = ProcIdle]
    /\ hist' = [hist EXCEPT !.timedOut = @ \cup {procs[p].op}]
    /\ UNCHANGED <<fetchVars, runVars, tmp, lock>>

\* leaving the with block, normally or by an exception
Unlocked(p) == IF lock.holder = p THEN [lock EXCEPT !.holder = None] ELSE lock

\* _atomic_write_json line 131: temp.open("w") creates or truncates the file
OpenTemp(p) ==
    /\ procs[p].pc = "open"
    /\ tmp' = [state |-> "partial", reg |-> NoReg, owner |-> p]
    /\ procs' = [procs EXCEPT ![p].pc = "write"]
    /\ UNCHANGED <<fetchVars, runVars, lock, hist>>

\* lines 132-134: json.dump, flush, fsync.  When another process truncated
\* the file since, two writers share it and it holds a mix; when another
\* process moved it over antenna.json, the bytes go to antenna.json.
WriteTemp(p) ==
    /\ procs[p].pc = "write"
    /\ IF tmp.state /= "missing"
       THEN /\ tmp' = IF tmp.owner = p
                      THEN [tmp EXCEPT !.state = "full", !.reg = procs[p].reg]
                      ELSE [tmp EXCEPT !.state = "partial", !.reg = NoReg]
            /\ canon' = canon
       ELSE /\ canon' \in {FullFile(procs[p].reg), PartialFile}
            /\ tmp' = tmp
    /\ procs' = [procs EXCEPT ![p].pc = "replace"]
    /\ UNCHANGED <<fetchVars, clock, orch, lock, hist>>

\* antenna.json after the temp file is moved over it
Moved == [state |-> tmp.state, reg |-> tmp.reg]

\* lines 136-138: os.replace(temp, target) moves the file or raises
Replace(p) ==
    /\ procs[p].pc = "replace"
    /\ IF tmp.state = "missing"
       THEN /\ procs' = [procs EXCEPT ![p] = ProcIdle]
            /\ lock' = Unlocked(p)
            /\ UNCHANGED <<canon, tmp>>
       ELSE \E raised \in BOOLEAN :
               IF raised
               THEN /\ procs' = [procs EXCEPT ![p].pc = "move"]
                    /\ UNCHANGED <<canon, tmp, lock>>
               ELSE /\ canon' = Moved
                    /\ tmp' = NoTemp
                    /\ procs' = [procs EXCEPT ![p].pc = "release"]
                    /\ lock' = lock
    /\ UNCHANGED <<fetchVars, clock, orch, hist>>

\* lines 139-140: shutil.move renames, or on OSError starts to copy the temp
\* file over antenna.json
Move(p) ==
    /\ procs[p].pc = "move"
    /\ IF tmp.state = "missing"
       THEN /\ procs' = [procs EXCEPT ![p] = ProcIdle]
            /\ lock' = Unlocked(p)
            /\ UNCHANGED <<canon, tmp>>
       ELSE \E renamed \in BOOLEAN :
               IF renamed
               THEN /\ canon' = Moved
                    /\ tmp' = NoTemp
                    /\ procs' = [procs EXCEPT ![p].pc = "release"]
                    /\ lock' = lock
               ELSE /\ canon' = PartialFile
                    /\ procs' = [procs EXCEPT ![p].pc = "copy"]
                    /\ UNCHANGED <<tmp, lock>>
    /\ UNCHANGED <<fetchVars, clock, orch, hist>>

\* shutil.move: the copy ends and the temp file is unlinked
CopyEnd(p) ==
    /\ procs[p].pc = "copy"
    /\ IF tmp.state = "missing"
       THEN /\ procs' = [procs EXCEPT ![p] = ProcIdle]
            /\ lock' = Unlocked(p)
            /\ UNCHANGED <<canon, tmp>>
       ELSE /\ canon' = Moved
            /\ tmp' = NoTemp
            /\ procs' = [procs EXCEPT ![p].pc = "release"]
            /\ lock' = lock
    /\ UNCHANGED <<fetchVars, clock, orch, hist>>

\* the with block of save_registry ends; the update returns
Release(p) ==
    /\ procs[p].pc = "release"
    /\ lock' = Unlocked(p)
    /\ hist' = [hist EXCEPT !.acked = @ \cup {procs[p].op}]
    /\ procs' = [procs EXCEPT ![p] = ProcIdle]
    /\ UNCHANGED <<fetchVars, runVars, tmp>>

Saving(p) == procs[p].pc \in {"open", "write", "replace", "move", "copy", "release"}

\* the process dies; the operating system drops its lock, the files stay
Crash(p) ==
    /\ procs[p].pc /= "idle"
    /\ hist.crashes < MaxCrashes
    /\ lock' = Unlocked(p)
    /\ hist' = [hist EXCEPT
                   !.crashes = @ + 1,
                   !.crashSeen = IF Saving(p) THEN @ \cup {canon.state} ELSE @]
    /\ procs' = [procs EXCEPT ![p] = ProcIdle]
    /\ UNCHANGED <<fetchVars, runVars, tmp>>

NextStore ==
    \E p \in Procs :
        \/ LoadAndModify(p)
        \/ Acquire(p)
        \/ LockTimeout(p)
        \/ OpenTemp(p)
        \/ WriteTemp(p)
        \/ Replace(p)
        \/ Move(p)
        \/ CopyEnd(p)
        \/ Release(p)
        \/ Crash(p)

SpecStore == InitStore /\ [][NextStore]_vars

(***************************************************************************)
(* Properties of the store                                                 *)
(***************************************************************************)
\* the change of an update that returned is in the registry
Reflected(op, reg) ==
    /\ op.video_id \in DOMAIN reg.videos
    /\ op.kind = "update_status" => reg.videos[op.video_id].status["transcript_downloaded"]

Quiescent == \A p \in Procs : procs[p].pc = "idle"

\* C1: registry updates hold the lock from their load to their save, so no
\* update is lost: with the lock installed and no crash, once every update
\* has returned the stored registry holds the change of each of them.
C1_NoUpdateLost ==
    (lock.installed /\ hist.crashes = 0 /\ Quiescent /\ canon.state = "full")
        => \A op \in hist.acked : Reflected(op, canon.reg)

\* C2: a crash at any step of save_registry never leaves antenna.json
\* partially written: the file a crashed save leaves is a complete image
\* (the lock being installed, no other process writes during the save).
C2_SaveIsCrashAtomic ==
    lock.installed => \A left \in hist.crashSeen : left = "full"

\* a process left the wait for the lock without entering the save
TimedOutStep(p) ==
    /\ procs[p].pc = "lock"
    /\ procs'[p].pc = "idle"
    /\ hist'.crashes = hist.crashes

\* C31: when the lock is held by another process and is not acquired
\* within the timeout, save_registry fails with the timeout error: the
\* update leaves the wait, is not acknowledged, writes neither the temp
\* file nor antenna.json, which keeps the image it held; and no process
\* enters the write of a locked collection without holding the lock.
C31_LockTimeoutWritesNothing ==
    [][\A p \in Procs :
          /\ TimedOutStep(p) =>
                /\ lock.installed /\ lock.holder \notin {None, p}
                /\ canon' = canon
                /\ tmp' = tmp
                /\ lock' = lock
                /\ hist'.acked = hist.acked
                /\ procs[p].op \in hist'.timedOut
          /\ (procs[p].pc = "lock" /\ procs'[p].pc = "open" /\ lock.installed)
                => (lock.holder = None /\ lock'.holder = p)]_vars

\* every update has ended, one of them by the timeout: the store holds a
\* complete image without the change of that update
C31_Witness ==
    /\ Quiescent
    /\ lock.installed
    /\ hist.crashes = 0
    /\ canon.state = "full"
    /\ \E op \in hist.timedOut :
          /\ op.kind = "update_status"
          /\ op \notin hist.acked
          /\ ~Reflected(op, canon.reg)

\* C37: without a lock provider (the no-op lock) two processes that save
\* concurrently never make a partial or mixed image visible under the
\* canonical name: antenna.json holds a complete image at every step, and
\* after both saves have finished it holds the complete image one of them
\* wrote.  (The copy of shutil.move after a failed os.replace, which a
\* single process makes, is left aside: it is the subject of C2.)
C37_UnlockedSavesNeverPartial ==
    (~lock.installed /\ hist.crashes = 0 /\ \A p \in Procs : procs[p].pc /= "copy")
        => canon.state = "full"

\* the part of C37 about the end: what antenna.json holds once both saves
\* have finished
UnlockedFinalImageComplete ==
    (~lock.installed /\ hist.crashes = 0 /\ Quiescent) => canon.state = "full"

(***************************************************************************)
(* load_registry on stored content of any kind: a file that is missing,    *)
(* that is not JSON, that is JSON of another shape, or that is a registry  *)
(* document with some of its parts damaged.                                *)
(***************************************************************************)
Defects ==
    {"no_header", "no_channel_id", "channel_id_number", "last_synced_malformed",
     "videos_list", "no_video_id", "no_title", "title_number", "no_published_at",
     "published_at_malformed", "last_updated_malformed", "flag_list", "duration_list"}

\* the header object of a document with the defects D
StoredHeader(D) ==
    JObj([k \in {"channel_id", "last_synced"} \ (IF "no_channel_id" \in D THEN {"channel_id"} ELSE {}) |->
            IF k = "channel_id"
            THEN IF "channel_id_number" \in D THEN JInt(1) ELSE JStr("UC1")
            ELSE JStr(IF "last_synced_malformed" \in D THEN EmptyStamp ELSE 1)])

StoredStatus(D) ==
    JObj([f \in Flags |-> IF f = "summarized" /\ "flag_list" \in D THEN JList ELSE JBool(FALSE)])

\* the entry of v1 in a document with the defects D
StoredEntry(D) ==
    LET gone == (IF "no_video_id" \in D THEN {"video_id"} ELSE {})
                \cup (IF "no_title" \in D THEN {"title"} ELSE {})
                \cup (IF "no_published_at" \in D THEN {"published_at"} ELSE {})
    IN  JObj([k \in {"video_id", "title", "published_at", "duration_sec", "status",
                     "last_updated"} \ gone |->
                IF k = "video_id" THEN JStr("v1")
                ELSE IF k = "title" THEN IF "title_number" \in D THEN JInt(1) ELSE JStr("A")
                ELSE IF k = "published_at"
                     THEN JStr(IF "published_at_malformed" \in D THEN EmptyStamp ELSE 1)
                ELSE IF k = "duration_sec" THEN IF "duration_list" \in D THEN JList ELSE JNull
                ELSE IF k = "status" THEN StoredStatus(D)
                ELSE JStr(IF "last_updated_malformed" \in D THEN EmptyStamp ELSE 1)])

StoredDoc(D) ==
    JObj([k \in {"header", "videos"} \ (IF "no_header" \in D THEN {"header"} ELSE {}) |->
            IF k = "header" THEN StoredHeader(D)
            ELSE IF "videos_list" \in D THEN JList
            ELSE JObj([v \in {"v1"} |-> StoredEntry(D)])])

StoredFile(state, doc) == [state |-> state, doc |-> doc]

InitLoad ==
    /\ cfg = [mode |-> "auto", max_retries |-> 0, initial_delay |-> DEFAULT_INITIAL_DELAY]
    /\ fpc = "off"
    /\ proxy = [called |-> FALSE, raised |-> FALSE, attempts |-> 0, log |-> <<>>, res |-> NotYet]
    /\ direct = [calls |-> 0, attempt |-> 0, delay |-> 0, sleeps |-> <<>>, log |-> <<>>]
    /\ result = NotYet
    /\ cancel = FALSE
    /\ \/ canon = StoredFile("missing", JNull)
       \/ canon = StoredFile("full", NotJson)
       \/ canon = StoredFile("full", JList)
       \/ \E D \in SUBSET Defects : canon = StoredFile("full", StoredDoc(D))
    /\ clock = 1
    /\ orch = OrchIdle
    /\ StoreIdle

\* one call of load_registry; result holds what the caller gets
LoadRegistry ==
    /\ "ok" \notin DOMAIN result
    /\ result' = load_registry(canon.state = "full", canon.doc)
    /\ UNCHANGED <<cfg, fpc, proxy, direct, cancel, runVars, storeVars>>

NextLoad == LoadRegistry

SpecLoad == InitLoad /\ [][NextLoad]_vars

\* the call has returned or raised
LoadEnded == "ok" \in DOMAIN result

\* the timestamps of a document that passed pydantic's checks
StoredStamps(doc) ==
    (IF "last_synced" \in DOMAIN doc.v.header.v /\ doc.v.header.v.last_synced.t = "str"
     THEN {doc.v.header.v.last_synced.v} ELSE {})
    \cup (IF "videos" \in DOMAIN doc.v
          THEN UNION {{doc.v.videos.v[v].v[k].v :
                          k \in {x \in DOMAIN doc.v.videos.v[v].v \cap {"published_at", "last_updated"} :
                                    doc.v.videos.v[v].v[x].t = "str"}} :
                      v \in DOMAIN doc.v.videos.v}
          ELSE {})

\* the stored content fits the Registry shape: it parses, no required field
\* is missing, every field has its type, every timestamp is well formed
FitsRegistryShape(doc) ==
    /\ doc.t = "obj"
    /\ RegistryValid(doc)
    /\ \A stamp \in StoredStamps(doc) : stamp /= EmptyStamp

\* the errors a caller that handles ValueError sees as an invalid schema
SchemaInvalid == {"ValueError", "JSONDecodeError"}

\* C22: load_registry fails with NotFound when no store exists and with
\* SchemaInvalid whenever the stored content does not fit the Registry shape
\* (a missing required field, a wrongly typed field, a malformed value in
\* published_at, last_updated or last_synced); it never returns a registry
\* built from such content.
C22_LoadRejectsUnfitContent ==
    LoadEnded =>
        /\ canon.state = "missing" => (~result.ok /\ result.error = "FileNotFoundError")
        /\ (canon.state = "full" /\ ~FitsRegistryShape(canon.doc)) =>
              (~result.ok /\ result.error \in SchemaInvalid)

\* the part of C22 the code keeps: a missing file, a missing required field,
\* a wrongly typed field and a malformed published_at are never loaded
LoadRejectsWhatPydanticChecks ==
    LoadEnded =>
        /\ canon.state = "missing" => (~result.ok /\ result.error = "FileNotFoundError")
        /\ (canon.state = "full" /\ (canon.doc.t /= "obj" \/ ~RegistryValid(canon.doc))) => ~result.ok
        /\ result.ok => canon.state = "full"

(***************************************************************************)
(* list_pending on a stored registry of any kind: up to three entries,     *)
(* every combination of the stage flags, publish times and titles that     *)
(* repeat.                                                                 *)
(***************************************************************************)
ListVids == {"v1", "v2", "v3"}

\* the values of need; "fetch" is a name list_pending does not know
Stages == {"transcript", "markdown", "summary", "fetch"}

StageStatuses ==
    {st \in [Flags -> BOOLEAN] : ~st["metadata_fetched"]}

EntryShapes == [status : StageStatuses, published_at : PublishedAts, title : Titles]

ListEntry(v, shape) ==
    [NewEntry([video_id |-> v, title |-> shape.title, published_at |-> shape.published_at],
              TRUE, 1)
        EXCEPT !.status = shape.status]

ListRegs ==
    {[header |-> EmptyRegistry(1).header,
      videos |-> [v \in DOMAIN f |-> ListEntry(v, f[v])]] :
        f \in UNION {[S -> EntryShapes] : S \in SUBSET ListVids}}

InitList ==
    /\ cfg = [mode |-> "auto", max_retries |-> 0, initial_delay |-> DEFAULT_INITIAL_DELAY]
    /\ fpc = "off"
    /\ proxy = [called |-> FALSE, raised |-> FALSE, attempts |-> 0, log |-> <<>>, res |-> NotYet]
    /\ direct = [calls |-> 0, attempt |-> 0, delay |-> 0, sleeps |-> <<>>, log |-> <<>>]
    /\ result = NotYet
    /\ cancel = FALSE
    /\ \E reg \in ListRegs : canon = FullFile(reg)
    /\ clock = 1
    /\ orch = OrchIdle
    /\ StoreIdle

\* tool_get_pending: one call of list_pending; result holds the list
GetPending ==
    /\ "need" \notin DOMAIN result
    /\ \E need \in Stages :
          result' = [need |-> need, pending |-> list_pending(canon.reg, need)]
    /\ UNCHANGED <<cfg, fpc, proxy, direct, cancel, runVars, storeVars>>

NextList == GetPending

SpecList == InitList /\ [][NextList]_vars

Listed == "need" \in DOMAIN result

\* the ids of the returned entries
ListedIds == {result.pending[i].video_id : i \in 1..Len(result.pending)}

\* the stage predicate, by stage
StageWants(e, need) ==
    IF need = "transcript" THEN e.status["transcript_downloaded"] = FALSE
    ELSE IF need = "markdown"
         THEN e.status["transcript_downloaded"] = TRUE /\ e.status["markdown_generated"] = FALSE
    ELSE IF need = "summary"
         THEN e.status["markdown_generated"] = TRUE /\ e.status["summarized"] = FALSE
    ELSE FALSE

\* C24: list_pending returns exactly the entries that match the stage
\* predicate (transcript: not downloaded; markdown: downloaded and not
\* rendered; summary: rendered and not summarized): none is omitted, no
\* other entry is returned, and each is returned once, as stored.
C24_ListIsStagePredicate ==
    Listed =>
        /\ ListedIds = {v \in DOMAIN canon.reg.videos : StageWants(canon.reg.videos[v], result.need)}
        /\ Len(result.pending) = Cardinality(ListedIds)
        /\ \A i \in 1..Len(result.pending) :
              result.pending[i] = canon.reg.videos[result.pending[i].video_id]

\* the markdown stage returned v2 and left out an entry that is not
\* downloaded and one that is rendered
C24_Witness ==
    /\ Listed
    /\ result.need = "markdown"
    /\ ListedIds = {"v2"}
    /\ DOMAIN canon.reg.videos = ListVids
    /\ ~canon.reg.videos["v1"].status["transcript_downloaded"]
    /\ canon.reg.videos["v3"].status["markdown_generated"]

\* the place of an id in the stored order of the entries
StoredPlace(v) == CHOOSE i \in 1..Len(VidOrder) : VidOrder[i] = v

\* x comes before y: the older first, the lesser title first among equal
\* times, the stored order among entries equal in both
ComesBefore(x, y) ==
    \/ x.published_at < y.published_at
    \/ /\ x.published_at = y.published_at
       /\ TitleRank(x.title) < TitleRank(y.title)
    \/ /\ x.published_at = y.published_at
       /\ x.title = y.title
       /\ StoredPlace(x.video_id) < StoredPlace(y.video_id)

\* C25: list_pending returns its entries in ascending order of the publish
\* timestamp, ties broken by title; the order is a function of the registry
\* state (entries equal in both keep their stored order).
C25_ListIsOrdered ==
    Listed =>
        \A i \in 1..Len(result.pending), j \in 1..Len(result.pending) :
            i < j => ComesBefore(result.pending[i], result.pending[j])

\* three entries returned in an order that is not the stored one: the
\* oldest is stored last, and the two of equal time are ordered by title
C25_Witness ==
    /\ Listed
    /\ Len(result.pending) = 3
    /\ result.pending[1].video_id = "v3"
    /\ result.pending[2].video_id = "v2"
    /\ result.pending[3].video_id = "v1"
    /\ result.pending[1].published_at < result.pending[2].published_at
    /\ result.pending[2].published_at = result.pending[3].published_at
    /\ result.pending[2].title = "A"
    /\ result.pending[3].title = "B"

(***************************************************************************)
(* check_ip_block_status (core/transcript_fetcher.py lines 43-90): the     *)
(* health probe on the reference video, against a provider of any kind.    *)
(* calls lists the requests the probe made, each with its answer.          *)
(***************************************************************************)
ProbeCall(call, code, answer) == [call |-> call, code |-> code, answer |-> answer]

ProbeResult(is_blocked, message, calls) ==
    [is_blocked |-> is_blocked, message |-> message, calls |-> calls]

ProbeFetchHandlerAbsenceFirst(e) ==
    IF IsA(e, "NoTranscriptFound") \/ IsA(e, "CouldNotRetrieveTranscript") THEN "continue"
    ELSE IF IsA(e, "IpBlocked") \/ IsA(e, "RequestBlocked") THEN "blocked"
    ELSE "propagates"

\* the except clauses of lines 66-70, in their order
ProbeFetchHandler(e) ==
    IF IsA(e, "IpBlocked") \/ IsA(e, "RequestBlocked") THEN "blocked"
    ELSE IF IsA(e, "NoTranscriptFound") \/ IsA(e, "CouldNotRetrieveTranscript") THEN "continue"
    ELSE "propagates"

\* lines 61-73: the loop over the listed tracks
RECURSIVE ProbeLoop(_, _, _)
ProbeLoop(env, tracks, calls) ==
    IF tracks = <<>> THEN ProbeResult(FALSE, None, calls)
    ELSE LET code == Head(tracks).lang
             o == ApiFetch(env, code)
             c == Append(calls, ProbeCall("fetch", code, o))
         IN  IF o \in {"ok", "okEmpty"} THEN ProbeResult(FALSE, None, c)
             ELSE IF ProbeFetchHandler(o) = "blocked" THEN ProbeResult(TRUE, o, c)
             ELSE IF ProbeFetchHandler(o) = "continue" THEN ProbeLoop(env, Tail(tracks), c)
             ELSE ProbeResult(FALSE, None, c)

\* lines 53-88; an exception that no inner clause takes reaches the clauses
\* of lines 80-85
check_ip_block_status(env) ==
    LET c == <<ProbeCall("list", None, env.list)>>
    IN  IF env.list = "ok" THEN ProbeLoop(env, TrackSeq(env), c)
        ELSE IF IsA(env.list, "IpBlocked") \/ IsA(env.list, "RequestBlocked")
        THEN ProbeResult(TRUE, env.list, c)
        ELSE ProbeResult(FALSE, None, c)

InitProbe ==
    /\ cfg = [mode |-> "auto", max_retries |-> 0, initial_delay |-> DEFAULT_INITIAL_DELAY]
    /\ fpc = "off"
    /\ proxy = [called |-> FALSE, raised |-> FALSE, attempts |-> 0, log |-> <<>>, res |-> NotYet]
    /\ direct = [calls |-> 0, attempt |-> 0, delay |-> 0, sleeps |-> <<>>, log |-> <<>>]
    /\ result = NotYet
    /\ cancel = FALSE
    /\ canon = MissingFile
    /\ clock = 1
    /\ orch = OrchIdle
    /\ StoreIdle

\* orchestrator.py line 204: one call of the probe; result holds the
\* provider it met and what it returned
CheckIpBlock ==
    /\ "probe" \notin DOMAIN result
    /\ \E env \in ProviderEnvs :
          result' = [env |-> env, probe |-> check_ip_block_status(env)]
    /\ UNCHANGED <<cfg, fpc, proxy, direct, cancel, runVars, storeVars>>

NextProbe == CheckIpBlock

SpecProbe == InitProbe /\ [][NextProbe]_vars

Probed == "probe" \in DOMAIN result

BlockSignals == {"IpBlocked", "RequestBlocked"}

\* the answers that say the reference video has no content to give
ContentNotFound == {"NoTranscriptFound", "TranscriptsDisabled", "VideoUnavailable"}

\* the requests of one pass: the listing once, then at most one fetch for
\* each listed track, in the order of the list
OnePass(env, calls) ==
    /\ calls[1].call = "list"
    /\ Len(calls) <= 1 + Len(TrackSeq(env))
    /\ \A i \in 2..Len(calls) :
          /\ calls[i].call = "fetch"
          /\ calls[i].code = TrackSeq(env)[i - 1].lang

\* C26: the health probe makes one pass without retrying and reports
\* isBlocked = true exactly when the provider answered with an IP-block or
\* request-block signal; content not found for the reference video, and
\* any other error, give isBlocked = false.
C26_ProbeReportsBlockOnly ==
    Probed =>
        LET calls == result.probe.calls
        IN  /\ OnePass(result.env, calls)
            /\ result.probe.is_blocked <=> (\E i \in 1..Len(calls) : calls[i].answer \in BlockSignals)
            /\ result.probe.is_blocked <=> (Last(calls).answer \in BlockSignals)
            /\ Last(calls).answer \in ContentNotFound \cup {"CouldNotRetrieveTranscript", "Other"}
                  => ~result.probe.is_blocked

\* the listing succeeded, the fetch of the first track failed without a
\* block, the fetch of the second answered IpBlocked
C26_Witness ==
    /\ Probed
    /\ Len(result.probe.calls) = 3
    /\ result.probe.calls[2].answer = "CouldNotRetrieveTranscript"
    /\ result.probe.calls[3].answer = "IpBlocked"
    /\ result.probe.is_blocked

(***************************************************************************)
(* One direct attempt (_fetch_transcript_internal) against every provider  *)
(* state: which variants are listed and what the fetch of each answers.    *)
(***************************************************************************)
InitAttempt ==
    /\ cfg = [mode |-> "direct_only", max_retries |-> 0, initial_delay |-> DEFAULT_INITIAL_DELAY]
    /\ fpc = "off"
    /\ proxy = [called |-> FALSE, raised |-> FALSE, attempts |-> 0, log |-> <<>>, res |-> NotYet]
    /\ direct = [calls |-> 0, attempt |-> 0, delay |-> 0, sleeps |-> <<>>, log |-> <<>>]
    /\ result = NotYet
    /\ cancel = FALSE
    /\ canon = MissingFile
    /\ clock = 1
    /\ orch = OrchIdle
    /\ StoreIdle

\* core/transcript_fetcher.py line 130: one call of the attempt; result holds
\* the provider it met and what the attempt ended with
FetchInternal ==
    /\ "attempt" \notin DOMAIN result
    /\ \E env \in ProviderEnvs :
          result' = [env |-> env, attempt |-> fetch_transcript_internal(env)]
    /\ UNCHANGED <<cfg, fpc, proxy, direct, cancel, runVars, storeVars>>

NextAttempt == FetchInternal

SpecAttempt == InitAttempt /\ [][NextAttempt]_vars

Attempted == "attempt" \in DOMAIN result

\* a variant is obtainable when it is listed and its fetch gives a text
Obtainable(env, v) == env.fetch[v] \in {"ok", "okEmpty"}

\* the provider lists the variants and no fetch is blocked or fails with an
\* unknown error: a variant is either obtainable or not retrievable
QuietProvider(env) ==
    /\ env.list = "ok"
    /\ \A v \in Variants :
          env.fetch[v] \in {Absent, "ok", "okEmpty", "CouldNotRetrieveTranscript"}

NoVariant == [lang |-> "none", gen |-> FALSE]

\* the variant the preference order names
PreferredVariant(env) ==
    LET inOrder(g) == SelectSeq(languages,
                          LAMBDA l : l \in TrackLangs /\ Obtainable(env, [lang |-> l, gen |-> g]))
        anyLeft == SelectSeq(TrackSeq(env), LAMBDA t : Obtainable(env, t))
    IN  IF inOrder(FALSE) /= <<>> THEN [lang |-> inOrder(FALSE)[1], gen |-> FALSE]
        ELSE IF inOrder(TRUE) /= <<>> THEN [lang |-> inOrder(TRUE)[1], gen |-> TRUE]
        ELSE IF anyLeft /= <<>> THEN anyLeft[1]
        ELSE NoVariant

ReturnsVariant(env, a, want) ==
    /\ a.kind = "ret"
    /\ IF want = NoVariant
       THEN a.triple = NoneTriple
       ELSE a.triple = Triple(FetchedText(env.fetch[want]),
                              IF want.gen THEN "auto-generated" ELSE "manual",
                              want.lang)

\* C33: within one direct attempt the returned variant is the first
\* manually-authored variant in the caller's language order if one is
\* obtainable, otherwise the first auto-generated variant in the same order,
\* otherwise any available variant, a manually-authored one before a
\* generated one; the reported source label is the kind of that variant.
C33_VariantPreference ==
    (Attempted /\ QuietProvider(result.env)) =>
        ReturnsVariant(result.env, result.attempt, PreferredVariant(result.env))

\* the same holds wherever no listed manually-authored variant fails to be
\* retrieved: api.fetch(languages=[code]) then reaches the variant the loop
\* is at
ManualVariantsRetrievable(env) ==
    \A l \in TrackLangs : env.fetch[[lang |-> l, gen |-> FALSE]] \in {Absent, "ok", "okEmpty"}

VariantPreferenceWhenManualRetrievable ==
    (Attempted /\ QuietProvider(result.env) /\ ManualVariantsRetrievable(result.env)) =>
        ReturnsVariant(result.env, result.attempt, PreferredVariant(result.env))

\* the label is the kind of the variant whose text is returned
LabelMatchesVariant ==
    (Attempted /\ QuietProvider(result.env) /\ result.attempt.triple /= NoneTriple) =>
        LET t == result.attempt.triple
            v == [lang |-> t.lang, gen |-> t.source = "auto-generated"]
        IN  /\ t.source \in {"manual", "auto-generated"}
            /\ Obtainable(result.env, v)
            /\ t.text = FetchedText(result.env.fetch[v])
            /\ t.source = "auto-generated" => ~Has(result.env, t.lang, FALSE)

(***************************************************************************)
(* The retry loop of fetch_transcript_text (core/transcript_fetcher.py     *)
(* lines 121-146) on its own: _fetch_transcript_internal is taken as an    *)
(* input of the loop, which returns a triple or raises a block signal, as  *)
(* the except clause of line 137 expects it to.                            *)
(***************************************************************************)
CallerDelays == {1, DEFAULT_INITIAL_DELAY, 30, 40, MAX_DELAY, 100}

AttemptEnds ==
    {Ret(Triple("hello", "manual", "en"), "none", {}),
     Ret(NoneTriple, "TranscriptsDisabled", {"TranscriptsDisabled"}),
     Raise("IpBlocked", {"IpBlocked"}),
     Raise("RequestBlocked", {"RequestBlocked"})}

\* line 121: delay = initial_delay, for any caller's arguments
InitBackoff ==
    /\ cfg \in [mode : {"direct_only"}, max_retries : 0..MaxRetriesCfg, initial_delay : CallerDelays]
    /\ fpc = "retry_loop"
    /\ proxy = [called |-> FALSE, raised |-> FALSE, attempts |-> 0, log |-> <<>>, res |-> NotYet]
    /\ direct = [calls |-> 1, attempt |-> 0, delay |-> cfg.initial_delay, sleeps |-> <<>>, log |-> <<>>]
    /\ result = NotYet
    /\ cancel = FALSE
    /\ canon = MissingFile
    /\ clock = 1
    /\ orch = OrchIdle
    /\ StoreIdle

\* lines 123-146: one iteration of the loop
RetryIteration ==
    /\ fpc = "retry_loop"
    /\ direct.attempt <= cfg.max_retries
    /\ \E o \in AttemptEnds :
         LET slept == direct.sleeps \o SleepsOf(direct.attempt, direct.delay)
             d == NextDelay(direct.attempt, direct.delay)
             log == Append(direct.log, LogEntry(o))
         IN  IF o.kind = "ret"
             THEN /\ direct' = [direct EXCEPT !.sleeps = slept, !.delay = d, !.log = log]
                  /\ fpc' = "done"
                  /\ result' = o.triple
             ELSE IF direct.attempt < cfg.max_retries
                  THEN /\ direct' = [direct EXCEPT !.sleeps = slept, !.delay = d,
                                                   !.log = log, !.attempt = @ + 1]
                       /\ fpc' = "retry_loop"
                       /\ result' = result
                  ELSE /\ direct' = [direct EXCEPT !.sleeps = slept, !.delay = d, !.log = log]
                       /\ fpc' = "done"
                       /\ result' = NoneTriple
    /\ UNCHANGED <<cfg, proxy, cancel, runVars, storeVars>>

NextBackoff == RetryIteration

SpecBackoff == InitBackoff /\ [][NextBackoff]_vars

\* the pre-jitter delays of the retry sleeps: every sleep but the base
\* delay of attempt 0
RetrySleeps == Tail(direct.sleeps)

FirstRetrySleepsInitialDelay ==
    direct.sleeps /= <<>> =>
        /\ Len(RetrySleeps) <= cfg.max_retries
        /\ Len(RetrySleeps) >= 1 => RetrySleeps[1] = cfg.initial_delay
        /\ \A i \in 2..Len(RetrySleeps) :
              /\ RetrySleeps[i] = Min(RetrySleeps[i - 1] * BACKOFF_MULTIPLIER, MAX_DELAY)
              /\ RetrySleeps[i] <= MAX_DELAY

(***************************************************************************)
(* build_index (core/index_builder.py): the summary index.json of a        *)
(* channel, built from its registry.  result holds the index file: its     *)
(* content, the registry it was built from and the number of builds.       *)
(***************************************************************************)
MaxBuilds == 2

\* a slip: pending counted as the items without a downloaded transcript
build_index_pending_unfetched(reg) ==
    LET total == Cardinality(DOMAIN reg.videos)
        processed == Cardinality({v \in DOMAIN reg.videos :
                                     reg.videos[v].status.markdown_generated})
        pending == Cardinality({v \in DOMAIN reg.videos :
                                   ~reg.videos[v].status.transcript_downloaded})
        summarized == Cardinality({v \in DOMAIN reg.videos : reg.videos[v].status.summarized})
    IN  [channel_id |-> reg.header.channel_id,
         last_synced |-> reg.header.last_synced,
         total_videos_known |-> total,
         processed_markdown |-> processed,
         pending_markdown |-> pending,
         summarized |-> summarized]

\* lines 33-47: the content of index.json
build_index(reg) ==
    LET total == Cardinality(DOMAIN reg.videos)
        processed == Cardinality({v \in DOMAIN reg.videos :
                                     reg.videos[v].status.markdown_generated})
        pending == total - processed
        summarized == Cardinality({v \in DOMAIN reg.videos : reg.videos[v].status.summarized})
    IN  [channel_id |-> reg.header.channel_id,
         last_synced |-> reg.header.last_synced,
         total_videos_known |-> total,
         processed_markdown |-> processed,
         pending_markdown |-> pending,
         summarized |-> summarized]

IndexShapes == {sh \in EntryShapes : sh.published_at = 1 /\ sh.title = "A"}

IndexRegs ==
    {[header |-> EmptyRegistry(1).header,
      videos |-> [v \in DOMAIN f |-> ListEntry(v, f[v])]] :
        f \in UNION {[S -> IndexShapes] : S \in SUBSET ListVids}}

InitIndex ==
    /\ cfg = [mode |-> "auto", max_retries |-> 0, initial_delay |-> DEFAULT_INITIAL_DELAY]
    /\ fpc = "off"
    /\ proxy = [called |-> FALSE, raised |-> FALSE, attempts |-> 0, log |-> <<>>, res |-> NotYet]
    /\ direct = [calls |-> 0, attempt |-> 0, delay |-> 0, sleeps |-> <<>>, log |-> <<>>]
    /\ result = NotYet
    /\ cancel = FALSE
    /\ \E reg \in IndexRegs : canon = FullFile(reg)
    /\ clock = 1
    /\ orch = OrchIdle
    /\ StoreIdle

Indexed == "index" \in DOMAIN result

\* orchestrator.py: build_index(channel_dir) at the end of a run; lines 31-50
BuildIndex ==
    /\ Indexed => result.builds < MaxBuilds
    /\ Readable(canon)
    /\ result' = [index |-> build_index(canon.reg),
                  of |-> canon.reg,
                  builds |-> IF Indexed THEN result.builds + 1 ELSE 1]
    /\ UNCHANGED <<cfg, fpc, proxy, direct, cancel, runVars, storeVars>>

IndexArgs ==
    {FailedArgs,
     [transcript_downloaded |-> TRUE, markdown_generated |-> TRUE],
     [summarized |-> TRUE]}

\* update_status between two builds (core/antenna_registry.py lines 390-415)
IndexedStatusChanges ==
    /\ clock < 2
    /\ Readable(canon)
    /\ \E v \in DOMAIN canon.reg.videos, args \in IndexArgs :
          canon' = FullFile(status_update(canon.reg, v, args, clock + 1))
    /\ clock' = clock + 1
    /\ UNCHANGED <<fetchVars, orch, storeVars>>

NextIndex ==
    \/ BuildIndex
    \/ IndexedStatusChanges

SpecIndex == InitIndex /\ [][NextIndex]_vars

CountOf(reg, f, b) == Cardinality({v \in DOMAIN reg.videos : reg.videos[v].status[f] = b})

CountsMatch(index, reg) ==
    /\ index.total_videos_known = Cardinality(DOMAIN reg.videos)
    /\ index.processed_markdown = CountOf(reg, "markdown_generated", TRUE)
    /\ index.pending_markdown = CountOf(reg, "markdown_generated", FALSE)
    /\ index.summarized = CountOf(reg, "summarized", TRUE)
    /\ index.processed_markdown + index.pending_markdown = index.total_videos_known

\* C35: build_index is a pure function of the registry: a rebuild from an
\* unchanged registry gives the identical content, processed_markdown +
\* pending_markdown = total_videos_known, and each count is the number of
\* registry items in the corresponding flag state.
C35_IndexIsFunctionOfRegistry ==
    [][Indexed' =>
          /\ CountsMatch(result'.index, result'.of)
          /\ (Indexed /\ result'.of = result.of) => result'.index = result.index]_vars

\* a second build from the unchanged registry of three items, one of them
\* rendered
C35_Witness ==
    /\ Indexed
    /\ result.builds = 2
    /\ result.of = canon.reg
    /\ result.index.total_videos_known = 3
    /\ result.index.processed_markdown = 1
    /\ result.index.pending_markdown = 2

(***************************************************************************)
(* init_registry among concurrent processes (core/antenna_registry.py      *)
(* lines 216-236): the channel directory starts without antenna.json; a    *)
(* process checks path.exists() and builds the new registry outside the    *)
(* lock, then saves it by save_registry as every update does.  No process  *)
(* crashes and no wait for the lock times out here.                        *)
(***************************************************************************)
InitialVideoLists == {<<>>, <<StoreItem("v1")>>}

InitFresh ==
    /\ cfg = [mode |-> "auto", max_retries |-> 0, initial_delay |-> DEFAULT_INITIAL_DELAY]
    /\ fpc = "off"
    /\ proxy = [called |-> FALSE, raised |-> FALSE, attempts |-> 0, log |-> <<>>, res |-> NotYet]
    /\ direct = [calls |-> 0, attempt |-> 0, delay |-> 0, sleeps |-> <<>>, log |-> <<>>]
    /\ result = NotYet
    /\ cancel = FALSE
    /\ canon = MissingFile
    /\ clock = 1
    /\ orch = OrchIdle
    /\ tmp = NoTemp
    /\ lock \in [installed : BOOLEAN, holder : {None}]
    /\ procs = [p \in Procs |-> ProcIdle]
    /\ hist = [acked |-> {}, crashes |-> 0, crashSeen |-> {}, timedOut |-> {}]

\* lines 216-233: path.exists() is false, the registry is built
InitRegistryBuilds(p) ==
    /\ procs[p].pc = "idle"
    /\ init_registry_creates(canon)
    /\ \E l \in InitialVideoLists :
          procs' = [procs EXCEPT ![p] =
                       [pc |-> "lock",
                        op |-> [kind |-> "init", video_id |-> IF l = <<>> THEN None ELSE l[1].video_id],
                        reg |-> init_registry(canon, "UC1", l, clock).reg]]
    /\ UNCHANGED <<fetchVars, runVars, tmp, lock, hist>>

\* lines 217-218: the file exists, init_registry loads it and returns (or
\* load_registry raises on a file it cannot read); nothing is written
InitRegistryReturns(p) ==
    /\ procs[p].pc = "idle"
    /\ ~init_registry_creates(canon)
    /\ UNCHANGED vars

NextFresh ==
    \E p \in Procs :
        \/ InitRegistryBuilds(p)
        \/ InitRegistryReturns(p)
        \/ LoadAndModify(p)
        \/ Acquire(p)
        \/ OpenTemp(p)
        \/ WriteTemp(p)
        \/ Replace(p)
        \/ Move(p)
        \/ CopyEnd(p)
        \/ Release(p)

SpecFresh == InitFresh /\ [][NextFresh]_vars

\* a step of process p, running init_registry, that changes an antenna.json
\* which held a complete registry
InitOverwrites(p) ==
    /\ procs[p].op.kind = "init"
    /\ procs'[p] /= procs[p]
    /\ canon.state = "full"
    /\ canon' /= canon

\* C38: init_registry never overwrites an existing registry, also when its
\* steps interleave with those of another init_registry, of sync_registry or
\* of update_status: no step of an init_registry call changes an
\* antenna.json that already holds a registry.
C38_InitNeverOverwrites ==
    [][\A p \in Procs : ~InitOverwrites(p)]_vars

\* the same with the lock provider installed
InitNeverOverwritesUnderLock ==
    [][lock.installed => \A p \in Procs : ~InitOverwrites(p)]_vars

(***************************************************************************)
(* update_status (core/antenna_registry.py lines 364-415) as one call on   *)
(* a stored registry, for every choice of its keyword arguments.  A        *)
(* keyword argument left out, or passed as None, is absent from args.      *)
(***************************************************************************)
UpdateVids == {"v1", "v2"}

\* the ids a caller names: the known ones and one the registry never holds
CalledVids == UpdateVids \cup {"v3"}

StoredProvenance == {None, "auto-generated"}

UpdateShapes == [status : StageStatuses, source : StoredProvenance]

UpdateEntry(v, shape) ==
    [NewEntry([video_id |-> v, title |-> "A", published_at |-> 1], TRUE, 1)
        EXCEPT !.status = shape.status,
               !.transcript_source = shape.source,
               !.path_md = IF shape.source = None THEN None ELSE "old.md"]

UpdateRegs ==
    {[header |-> EmptyRegistry(1).header,
      videos |-> [v \in DOMAIN f |-> UpdateEntry(v, f[v])]] :
        f \in UNION {[S -> UpdateShapes] : S \in SUBSET UpdateVids}}

StageFlags == {"transcript_downloaded", "markdown_generated", "summarized"}

TextArgs == {"path_md", "transcript_source"}

\* the keyword arguments of a call that are not None
UpdateArgs ==
    {fl @@ tx :
        fl \in UNION {[S -> BOOLEAN] : S \in SUBSET StageFlags},
        tx \in UNION {[S -> {"manual"}] : S \in SUBSET TextArgs}}

\* update_status (lines 390-415): the file after the call and what it raised
update_status(file, vid, args, now) ==
    IF ~Readable(file)
    THEN [file |-> file, raised |-> "LoadError"]
    ELSE IF vid \notin DOMAIN file.reg.videos
    THEN [file |-> file, raised |-> "KeyError"]
    ELSE [file |-> FullFile(status_update(file.reg, vid, args, now)), raised |-> "none"]

InitUpdate ==
    /\ cfg = [mode |-> "auto", max_retries |-> 0, initial_delay |-> DEFAULT_INITIAL_DELAY]
    /\ fpc = "off"
    /\ proxy = [called |-> FALSE, raised |-> FALSE, attempts |-> 0, log |-> <<>>, res |-> NotYet]
    /\ direct = [calls |-> 0, attempt |-> 0, delay |-> 0, sleeps |-> <<>>, log |-> <<>>]
    /\ result = NotYet
    /\ cancel = FALSE
    /\ \E reg \in UpdateRegs : canon = FullFile(reg)
    /\ clock = 1
    /\ orch = OrchIdle
    /\ StoreIdle

Updated == "update" \in DOMAIN result

\* one call of update_status; result holds the call and the registry before
UpdateStatus ==
    /\ ~Updated
    /\ \E vid \in CalledVids, args \in UpdateArgs :
          LET u == update_status(canon, vid, args, clock + 1)
          IN  /\ canon' = u.file
              /\ result' = [update |-> [video_id |-> vid, args |-> args, raised |-> u.raised],
                            before |-> canon.reg]
    /\ clock' = clock + 1
    /\ UNCHANGED <<cfg, fpc, proxy, direct, cancel, orch, storeVars>>

NextUpdate == UpdateStatus

SpecUpdate == InitUpdate /\ [][NextUpdate]_vars

\* the named entry after the call: the given fields set, the others as stored
OnlyGivenFieldsSet(old, new, args, now) ==
    /\ DOMAIN new = DOMAIN old
    /\ \A f \in Flags :
          new.status[f] = IF f \in DOMAIN args THEN args[f] ELSE old.status[f]
    /\ \A k \in DOMAIN old \ {"status", "last_updated"} :
          new[k] = IF k \in DOMAIN args THEN args[k] ELSE old[k]
    /\ new.last_updated = now

\* C39: update_status changes only what it is told: the named item gets
\* exactly the argument fields that are not None (None leaves the stored
\* field as it is), a new last_updated, and the header a new last_synced;
\* every other item is unchanged; for an id that is not in the registry it
\* raises KeyError and leaves the store as it was.
C39_UpdateStatusFrame ==
    Updated =>
        LET u == result.update
            b == result.before
        IN  IF u.video_id \notin DOMAIN b.videos
            THEN u.raised = "KeyError" /\ canon = FullFile(b)
            ELSE /\ u.raised = "none"
                 /\ canon.state = "full"
                 /\ DOMAIN canon.reg.videos = DOMAIN b.videos
                 /\ \A v \in DOMAIN b.videos \ {u.video_id} :
                       canon.reg.videos[v] = b.videos[v]
                 /\ OnlyGivenFieldsSet(b.videos[u.video_id], canon.reg.videos[u.video_id],
                                       u.args, clock)
                 /\ canon.reg.header.channel_id = b.header.channel_id
                 /\ canon.reg.header.last_synced = clock

\* the failure update of the orchestrator (transcript_downloaded=False, the
\* provenance arguments None) on an item that has a stored provenance and
\* path, beside another item
C39_Witness ==
    /\ Updated
    /\ result.update.video_id = "v1"
    /\ result.update.args = FailedArgs
    /\ result.update.raised = "none"
    /\ result.before.videos["v1"].transcript_source = "auto-generated"
    /\ canon.reg.videos["v1"].transcript_source = "auto-generated"
    /\ canon.reg.videos["v1"].path_md = "old.md"
    /\ "v2" \in DOMAIN canon.reg.videos

====
